---- MODULE Spec2Model ----
(***************************************************************************)
(* Model of the constraint-programming scheduling core (or-tools/src):     *)
(* the constraint builder, the CP-SAT solver driver, the solution parser   *)
(* and the scheduling service that orchestrates them.                      *)
(*                                                                         *)
(* Time is counted in the solver's unit, whole minutes after the plan's    *)
(* start; datetimes handed in or out are whole seconds after the plan's    *)
(* start.  An optional field (None in the source) is a set with at most    *)
(* one element.  Python lists whose order no modelled code depends on are  *)
(* sets.                                                                   *)
(***************************************************************************)
EXTENDS Integers, Sequences, FiniteSets, TLC

(***************************************************************************)
(* Bounds of the checked instances.                                        *)
(***************************************************************************)
\* largest planning horizon, in minutes, of a plan handed to the driver
\* (time_horizon_hours * 60 in the source)
MaxHorizon == 4
\* base duration, in minutes, of a job of a checked plan
JobMinutes == 2
\* duration, in minutes, of a preparation task handed to the driver
PrepMinutes == 1
\* horizon, in minutes, of a service request that carries materials
\* (prep_window_days * 24 * 60 in the source); it leaves room for the
\* one-hour preparation task the service creates per material
ServiceHorizon == 61
MaxCalls == 4
MaxEvents == 2
\* the calls made on the gate service and on the task's gate
MaxGateCalls == 3
\* the allocations the ledger of the resource service holds
MaxAllocations == 2

(***************************************************************************)
(* Program constants.                                                      *)
(***************************************************************************)
SecondsPerMinute == 60
\* duration_hours=1.0 of a preparation task made from a material, in minutes
MaterialPrepMinutes == 60
\* base_duration_hours=4.0 of a job that has no job_details, in minutes
DefaultJobMinutes == 240
\* time_horizon_hours of a constraint config without the key: 168 * 60
DefaultHorizonMinutes == 10080
\* config.get("prep_window_days", 2) * 24 * 60
DefaultPrepWindowMinutes == 2880
\* upper bound of the waiting_* and delay_* variables of the objective
MaxWaitingMinutes == 10080
\* factor of a delay term inside _build_delays_objective
DelayPenalty == 1000
BaseMakespanHours == 24

None == {}
Some(x) == {x}

Max(a, b) == IF a >= b THEN a ELSE b

(***************************************************************************)
(* Domain entities (models/job.py, models/resource.py,                     *)
(* models/preparation.py), reduced to the fields the solver reads.         *)
(***************************************************************************)
Job(id, wp, base, preds, reqs, quals, es, lf) ==
    [job_id |-> id, work_card_id |-> wp, base_minutes |-> base,
     fixed_minutes |-> None, predecessor_jobs |-> preds,
     required_resources |-> reqs, required_qualifications |-> quals,
     earliest_start |-> es, latest_finish |-> lf, fixed_start |-> None]

ResourceRequirement(rid, qty) == [resource_id |-> rid, quantity |-> qty]

HumanResource(id, quals, total) ==
    [resource_id |-> id, kind |-> "human", qualifications |-> quals,
     is_exclusive |-> FALSE, exclusive_group |-> None, total_quantity |-> total]

PhysicalResource(id, excl, group, total) ==
    [resource_id |-> id, kind |-> "physical", qualifications |-> {},
     is_exclusive |-> excl, exclusive_group |-> group, total_quantity |-> total]

PreparationTask(id, wp, dur, deps, gate, assets) ==
    [prep_id |-> id, work_package_id |-> wp, duration_minutes |-> dur,
     dependencies |-> deps, is_gate |-> gate, required_assets |-> assets,
     earliest_start |-> None, latest_finish |-> None]

\* Job.has_resource_requirement
has_resource_requirement(job, rid) ==
    \E req \in job.required_resources : req.resource_id = rid

\* Job.get_resource_quantity
get_resource_quantity(job, rid) ==
    IF has_resource_requirement(job, rid)
    THEN (CHOOSE req \in job.required_resources : req.resource_id = rid).quantity
    ELSE 0

\* HumanResource.has_qualification
has_qualification(hr, q) == q \in hr.qualifications

(***************************************************************************)
(* Constraint builder (solvers/constraint_builder.py).  The CP model is    *)
(* the set of constraints posted on it; a constraint is a record           *)
(*   [k: kind, a, b: task or resource ids, n: a number of minutes,         *)
(*    ps: a set of <<resource id, task id>> assignment variables].         *)
(***************************************************************************)
Precedence(pred, succ) ==
    [k |-> "precedence", a |-> pred, b |-> succ, n |-> 0, ps |-> {}]
NoOverlap(rid, tasks) ==
    [k |-> "no_overlap", a |-> rid, b |-> "", n |-> 0,
     ps |-> {<<rid, t>> : t \in tasks}]
StartAtLeast(t, m) == [k |-> "earliest_start", a |-> t, b |-> "", n |-> m, ps |-> {}]
EndAtMost(t, m) == [k |-> "latest_finish", a |-> t, b |-> "", n |-> m, ps |-> {}]
StartEquals(t, m) == [k |-> "fixed_start", a |-> t, b |-> "", n |-> m, ps |-> {}]
AtLeastOne(kind, t, q, assigns) ==
    [k |-> kind, a |-> t, b |-> q, n |-> 1, ps |-> assigns]
WaitingBound(pred, succ) ==
    [k |-> "waiting", a |-> pred, b |-> succ, n |-> MaxWaitingMinutes, ps |-> {}]
DelayBound(t, m) ==
    [k |-> "delay", a |-> t, b |-> "", n |-> m + MaxWaitingMinutes, ps |-> {}]

\* int(x) of Python: truncation towards zero of num / den, den > 0
TruncDiv(num, den) ==
    IF num >= 0 THEN num \div den ELSE -((-num) \div den)

\* _datetime_to_minutes: dt is given in seconds after plan_start_time
_datetime_to_minutes(dt) == TruncDiv(dt, SecondsPerMinute)

TaskIds(jobs, preparation_tasks) ==
    {j.job_id : j \in jobs} \cup {p.prep_id : p \in preparation_tasks}

\* lower and upper bound of duration_var of a job, in minutes
JobDurationLow(job) ==
    IF job.fixed_minutes # None
    THEN CHOOSE d \in job.fixed_minutes : TRUE
    ELSE (job.base_minutes * 8) \div 10
JobDurationHigh(job) ==
    IF job.fixed_minutes # None
    THEN CHOOSE d \in job.fixed_minutes : TRUE
    ELSE (job.base_minutes * 15) \div 10

\* config.get("time_horizon_hours", 168) * 60; a constraint config is the
\* set of its time_horizon entries, empty when the key is absent
TimeHorizonMinutes(config) ==
    IF config = None THEN DefaultHorizonMinutes
    ELSE CHOOSE h \in config : TRUE

\* _create_task_variables: the tasks that get start/end/duration/interval
\* variables, the bounds of each duration and the bound of start and end
_create_task_variables(jobs, preparation_tasks, config) ==
    [tasks |-> TaskIds(jobs, preparation_tasks),
     dur_lo |-> [t \in TaskIds(jobs, preparation_tasks) |->
                   IF \E p \in preparation_tasks : p.prep_id = t
                   THEN (CHOOSE p \in preparation_tasks : p.prep_id = t).duration_minutes
                   ELSE JobDurationLow(CHOOSE j \in jobs : j.job_id = t)],
     dur_hi |-> [t \in TaskIds(jobs, preparation_tasks) |->
                   IF \E p \in preparation_tasks : p.prep_id = t
                   THEN (CHOOSE p \in preparation_tasks : p.prep_id = t).duration_minutes
                   ELSE JobDurationHigh(CHOOSE j \in jobs : j.job_id = t)],
     horizon |-> TimeHorizonMinutes(config)]

\* a builder that forgets the dependencies of the preparation tasks
PrecedenceOfJobsOnly(jobs, preparation_tasks, tasks) ==
    UNION {{Precedence(p, j.job_id) :
              p \in {q \in j.predecessor_jobs : q \in tasks}} : j \in jobs}

_build_precedence_constraints(jobs, preparation_tasks, tasks) ==
    UNION {{Precedence(p, j.job_id) :
              p \in {q \in j.predecessor_jobs : q \in tasks}} : j \in jobs}
    \cup
    UNION {{Precedence(d, t.prep_id) :
              d \in {q \in t.dependencies : q \in tasks}} : t \in preparation_tasks}

\* requiring_tasks of one resource in _build_resource_constraints
RequiringTasks(resource, jobs, preparation_tasks) ==
    (IF resource.kind = "human"
     THEN {j.job_id : j \in jobs}
     ELSE {j.job_id : j \in {x \in jobs :
                               has_resource_requirement(x, resource.resource_id)}})
    \cup
    {t.prep_id : t \in {x \in preparation_tasks :
        \E asset_req \in x.required_assets :
            asset_req.asset_id = resource.resource_id}}

\* a builder that posts nothing for an exclusive resource
NoExclusiveConstraint(resource_id, requiring_tasks, tasks) == {}

_build_exclusive_resource_constraint(resource_id, requiring_tasks, tasks) ==
    IF Cardinality(requiring_tasks) <= 1
    THEN {}
    ELSE IF requiring_tasks \cap tasks = {}
         THEN {}
         ELSE {NoOverlap(resource_id, requiring_tasks \cap tasks)}

_build_cumulative_resource_constraint(resource, requiring_tasks, tasks) ==
    IF resource.total_quantity <= 1
    THEN _build_exclusive_resource_constraint(resource.resource_id,
                                              requiring_tasks, tasks)
    ELSE {}

\* _build_resource_constraints: the assignment variables and the capacity
\* constraints of every resource
ResourceAssignments(jobs, preparation_tasks, resources) ==
    UNION {{<<r.resource_id, t>> : t \in RequiringTasks(r, jobs, preparation_tasks)}
           : r \in resources}

_build_resource_constraints(jobs, preparation_tasks, resources, tasks) ==
    UNION {IF r.kind = "physical" /\ r.is_exclusive
           THEN _build_exclusive_resource_constraint(
                    r.resource_id, RequiringTasks(r, jobs, preparation_tasks), tasks)
           ELSE _build_cumulative_resource_constraint(
                    r, RequiringTasks(r, jobs, preparation_tasks), tasks)
           : r \in resources}

_build_time_window_constraints(jobs, preparation_tasks) ==
    UNION {{StartAtLeast(j.job_id, _datetime_to_minutes(dt)) : dt \in j.earliest_start}
           \cup {EndAtMost(j.job_id, _datetime_to_minutes(dt)) : dt \in j.latest_finish}
           \cup {StartEquals(j.job_id, _datetime_to_minutes(dt)) : dt \in j.fixed_start}
           : j \in jobs}
    \cup
    UNION {{StartAtLeast(t.prep_id, _datetime_to_minutes(dt)) : dt \in t.earliest_start}
           \cup {EndAtMost(t.prep_id, _datetime_to_minutes(dt)) : dt \in t.latest_finish}
           : t \in preparation_tasks}

HumanResources(resources) == {r \in resources : r.kind = "human"}

\* the assignment variables of the people who hold a qualification
QualifiedForSkill(job, human_resources, qualification) ==
    {<<hr.resource_id, job.job_id>> :
        hr \in {h \in human_resources : has_qualification(h, qualification)}}

\* _build_collaborative_qualification_constraint raises
\* ConstraintViolationError when nobody holds a required qualification
QualificationMissing(jobs, resources) ==
    \E j \in jobs : \E q \in j.required_qualifications :
        QualifiedForSkill(j, HumanResources(resources), q) = {}

\* a builder that lets anybody cover a required qualification
AnyoneForSkill(job, human_resources) ==
    {AtLeastOne("qualification", job.job_id, q,
                {<<hr.resource_id, job.job_id>> : hr \in human_resources})
     : q \in job.required_qualifications}

_build_collaborative_qualification_constraint(job, human_resources) ==
    {AtLeastOne("qualification", job.job_id, q,
                QualifiedForSkill(job, human_resources, q))
     : q \in job.required_qualifications}

_build_qualification_constraints(jobs, resources) ==
    UNION {_build_collaborative_qualification_constraint(j, HumanResources(resources))
           : j \in jobs}

\* the gate tasks are grouped by work package and nothing is posted
_build_gate_constraints(preparation_tasks) == {}

_build_task_execution_constraints(jobs, resources) ==
    {AtLeastOne("task_execution", j.job_id, "",
                {<<hr.resource_id, j.job_id>> : hr \in HumanResources(resources)})
     : j \in {x \in jobs : HumanResources(resources) # {}}}

\* build_constraints: the variables handed back to the driver and the
\* constraints posted on the model
build_constraints(jobs, resources, preparation_tasks, constraint_config) ==
    LET tv == _create_task_variables(jobs, preparation_tasks, constraint_config)
    IN  [tasks |-> tv.tasks,
         dur_lo |-> tv.dur_lo,
         dur_hi |-> tv.dur_hi,
         horizon |-> tv.horizon,
         resource_assignments |->
             ResourceAssignments(jobs, preparation_tasks, resources),
         constraints |->
             _build_precedence_constraints(jobs, preparation_tasks, tv.tasks)
             \cup _build_resource_constraints(jobs, preparation_tasks, resources,
                                              tv.tasks)
             \cup _build_time_window_constraints(jobs, preparation_tasks)
             \cup _build_qualification_constraints(jobs, resources)
             \cup _build_gate_constraints(preparation_tasks)
             \cup _build_task_execution_constraints(jobs, resources)]

(***************************************************************************)
(* Objective builder (solvers/objective_builder.py).  The modelled         *)
(* resources carry no hourly_cost and every task lies in the default area, *)
(* so the cost and switches terms are None, as in the source.              *)
(***************************************************************************)
\* ObjectiveWeight.from_template, each weight as int(weight * 1000)
from_template(template) ==
    IF template = "balanced"
    THEN [makespan |-> 1000, waiting |-> 400, delays |-> 600]
    ELSE IF template = "protect_sla"
    THEN [makespan |-> 2000, waiting |-> 200, delays |-> 1000]
    ELSE IF template = "cost_min"
    THEN [makespan |-> 500, waiting |-> 100, delays |-> 300]
    ELSE [makespan |-> 1000, waiting |-> 200, delays |-> 500]

\* _build_objective of the driver: the template's weights with the custom
\* weights of the objective config laid over them
ObjectiveWeights(objective_config) ==
    IF objective_config.weights = "all_zero"
    THEN [makespan |-> 0, waiting |-> 0, delays |-> 0]
    ELSE from_template(objective_config.priority_template)

\* the (pred, succ) pairs _build_waiting_objective makes a waiting variable for
WaitingEdges(jobs, preparation_tasks, tasks) ==
    UNION {{<<p, j.job_id>> : p \in {q \in j.predecessor_jobs : q \in tasks}}
           : j \in jobs}
    \cup
    UNION {{<<d, t.prep_id>> : d \in {q \in t.dependencies : q \in tasks}}
           : t \in preparation_tasks}

\* the (task, latest minutes) pairs _build_delays_objective makes a delay
\* variable for
DelayTasks(jobs, preparation_tasks) ==
    UNION {{<<j.job_id, _datetime_to_minutes(dt)>> : dt \in j.latest_finish}
           : j \in jobs}
    \cup
    UNION {{<<t.prep_id, _datetime_to_minutes(dt)>> : dt \in t.latest_finish}
           : t \in preparation_tasks}

\* build_objective raises ConfigurationError when no term is left
NoObjectiveTerms(jobs, preparation_tasks, tasks, weights) ==
    /\ ~(weights.makespan > 0 /\ tasks # {})
    /\ ~(weights.waiting > 0 /\ WaitingEdges(jobs, preparation_tasks, tasks) # {})
    /\ ~(weights.delays > 0 /\ DelayTasks(jobs, preparation_tasks) # {})

\* the constraints build_objective posts on the model for its own variables
ObjectiveConstraints(jobs, preparation_tasks, tasks, weights) ==
    (IF weights.waiting > 0
     THEN {WaitingBound(e[1], e[2]) : e \in WaitingEdges(jobs, preparation_tasks, tasks)}
     ELSE {})
    \cup
    (IF weights.delays > 0
     THEN {DelayBound(d[1], d[2]) : d \in DelayTasks(jobs, preparation_tasks)}
     ELSE {})

RECURSIVE SumOf(_, _)
\* the sum of f[x] over the elements x of S
SumOf(f, S) ==
    IF S = {} THEN 0
    ELSE LET x == CHOOSE y \in S : TRUE
         IN  f[x] + SumOf(f, S \ {x})

RECURSIVE MaxOf(_)
\* the largest element of a non-empty set of integers
MaxOf(S) ==
    LET x == CHOOSE y \in S : TRUE
    IN  IF S = {x} THEN x ELSE Max(x, MaxOf(S \ {x}))

\* the least value the objective takes on a solution: its makespan,
\* waiting and delay variables at their lower bounds
ObjectiveValue(sol, jobs, preparation_tasks, tasks, weights) ==
    (IF weights.makespan > 0 /\ tasks # {}
     THEN weights.makespan * MaxOf({sol.end[t] : t \in tasks})
     ELSE 0)
    +
    (IF weights.waiting > 0
     THEN weights.waiting *
          SumOf([e \in WaitingEdges(jobs, preparation_tasks, tasks) |->
                    Max(0, sol.start[e[2]] - sol.end[e[1]])],
                WaitingEdges(jobs, preparation_tasks, tasks))
     ELSE 0)
    +
    (IF weights.delays > 0
     THEN weights.delays *
          SumOf([d \in DelayTasks(jobs, preparation_tasks) |->
                    Max(0, sol.end[d[1]] - d[2]) * DelayPenalty],
                DelayTasks(jobs, preparation_tasks))
     ELSE 0)

(***************************************************************************)
(* The CP-SAT solver: a solution gives every task a start and an end and   *)
(* says which assignment variables are 1.  The solver may hand back any    *)
(* solution that satisfies the posted constraints.                         *)
(***************************************************************************)
\* the (start, end) pairs of one task that respect its variables' domains
\* and its interval constraint start + duration = end
Slots(variables, t) ==
    {se \in (0..variables.horizon) \X (0..variables.horizon) :
        /\ se[2] - se[1] >= variables.dur_lo[t]
        /\ se[2] - se[1] <= variables.dur_hi[t]}

\* one constraint that speaks of times only, on starts and ends
HoldsTime(c, start, end) ==
    CASE c.k = "precedence" -> end[c.a] <= start[c.b]
      [] c.k = "earliest_start" -> start[c.a] >= c.n
      [] c.k = "latest_finish" -> end[c.a] <= c.n
      [] c.k = "fixed_start" -> start[c.a] = c.n
      [] c.k = "waiting" -> start[c.b] - end[c.a] <= c.n
      [] c.k = "delay" -> end[c.a] <= c.n
      [] OTHER -> TRUE

\* a sum of assignment variables that must reach 1
HoldsAssign(c, assign) ==
    IF c.k \in {"qualification", "task_execution"}
    THEN c.ps \cap assign # {}
    ELSE TRUE

\* AddNoOverlap over the optional intervals of the assigned tasks
HoldsNoOverlap(c, start, end, assign) ==
    IF c.k = "no_overlap"
    THEN \A v1 \in c.ps \cap assign : \A v2 \in c.ps \cap assign :
            v1 # v2 => (end[v1[2]] <= start[v2[2]] \/ end[v2[2]] <= start[v1[2]])
    ELSE TRUE

TimeSolutions(variables, constraints) ==
    LET slots == [t \in variables.tasks |-> Slots(variables, t)]
        all == UNION {slots[t] : t \in variables.tasks}
    IN  {f \in [variables.tasks -> all] :
            /\ \A t \in variables.tasks : f[t] \in slots[t]
            /\ \A c \in constraints :
                 HoldsTime(c, [t \in variables.tasks |-> f[t][1]],
                              [t \in variables.tasks |-> f[t][2]])}

AssignSolutions(variables, constraints) ==
    {a \in SUBSET variables.resource_assignments :
        \A c \in constraints : HoldsAssign(c, a)}

\* every assignment of the model's variables that satisfies the model
SatisfyingSolutions(variables, constraints) ==
    {sol \in {[start |-> [t \in variables.tasks |-> f[t][1]],
               end |-> [t \in variables.tasks |-> f[t][2]],
               assign |-> a] :
                  f \in TimeSolutions(variables, constraints),
                  a \in AssignSolutions(variables, constraints)} :
        \A c \in constraints : HoldsNoOverlap(c, sol.start, sol.end, sol.assign)}

(***************************************************************************)
(* Solution parser (solvers/solution_parser.py).  Datetimes of a schedule  *)
(* are seconds after plan_start_time.                                      *)
(***************************************************************************)
\* plan_start_time + timedelta(minutes=m)
MinutesToTime(m) == m * SecondsPerMinute

_parse_task_intervals(sol, jobs, preparation_tasks, variables) ==
    {[task_id |-> j.job_id, task_type |-> "job",
      start_time |-> MinutesToTime(sol.start[j.job_id]),
      end_time |-> MinutesToTime(sol.end[j.job_id]),
      duration_minutes |-> sol.end[j.job_id] - sol.start[j.job_id],
      work_package_id |-> j.work_card_id]
     : j \in {x \in jobs : x.job_id \in variables.tasks}}
    \cup
    {[task_id |-> t.prep_id, task_type |-> "preparation",
      start_time |-> MinutesToTime(sol.start[t.prep_id]),
      end_time |-> MinutesToTime(sol.end[t.prep_id]),
      duration_minutes |-> sol.end[t.prep_id] - sol.start[t.prep_id],
      work_package_id |-> t.work_package_id]
     : t \in {x \in preparation_tasks : x.prep_id \in variables.tasks}}

_parse_resource_allocations(sol, resources, variables) ==
    {[resource_id |-> v[1], allocated_to |-> v[2], quantity |-> 1,
      start_time |-> MinutesToTime(sol.start[v[2]]),
      end_time |-> MinutesToTime(sol.end[v[2]])]
     : v \in {w \in sol.assign :
                /\ \E r \in resources : r.resource_id = w[1]
                /\ w[2] \in variables.tasks}}

\* the validators of TaskInterval and ResourceAllocation (models/schedule.py)
\* reject an interval that does not end after it starts
IntervalsValid(intervals) ==
    \A i \in intervals : i.end_time > i.start_time /\ i.duration_minutes > 0

\* parse_solution: the Schedule built from the solver's values
parse_solution(result, jobs, resources, preparation_tasks, variables) ==
    LET sol == CHOOSE x \in result.solution : TRUE
    IN  [task_intervals |->
             _parse_task_intervals(sol, jobs, preparation_tasks, variables),
         resource_allocations |->
             _parse_resource_allocations(sol, resources, variables),
         is_feasible |-> result.status \in {"optimal", "feasible"},
         is_optimal |-> result.status = "optimal"]

ParseRaises(result, jobs, resources, preparation_tasks, variables) ==
    LET schedule == parse_solution(result, jobs, resources, preparation_tasks,
                                   variables)
    IN  \/ ~IntervalsValid(schedule.task_intervals)
        \/ \E a \in schedule.resource_allocations : ~(a.end_time > a.start_time)

(***************************************************************************)
(* The CP-SAT driver (solvers/cpsat_solver.py).  Its state is a record;    *)
(* model is the set of builds posted on the CpModel since it was created,  *)
(* each with its own variables.                                            *)
(***************************************************************************)
NewDriver ==
    [initialized |-> FALSE, jobs |-> {}, resources |-> {},
     preparation_tasks |-> {}, constraints_config |-> None,
     objective_config |-> None, variables |-> None, model |-> {},
     last_result |-> None]

initialize(d) == [d EXCEPT !.model = {}, !.initialized = TRUE]

add_jobs(d, jobs) == [d EXCEPT !.jobs = @ \cup jobs]
add_resources(d, resources) == [d EXCEPT !.resources = @ \cup resources]
add_preparation_tasks(d, tasks) ==
    [d EXCEPT !.preparation_tasks = @ \cup tasks]
\* constraints_config.update(constraints)
add_constraints(d, constraints) ==
    [d EXCEPT !.constraints_config =
                  IF constraints = None THEN @ ELSE constraints]
set_objective(d, objective_config) ==
    [d EXCEPT !.objective_config = Some(objective_config)]

\* validate_input: errors is empty
validate_input(d) ==
    /\ d.initialized
    /\ d.jobs # {} \/ d.preparation_tasks # {}
    /\ d.resources # {}
    /\ \A j \in d.jobs : \A pred_id \in j.predecessor_jobs :
           pred_id \in TaskIds(d.jobs, d.preparation_tasks)
    /\ \A t \in d.preparation_tasks : \A dep_id \in t.dependencies :
           dep_id \in TaskIds(d.jobs, d.preparation_tasks)

\* objective_config.get("priority_template", BALANCED) and .get("weights", {})
ObjectiveConfigOf(d) ==
    IF d.objective_config = None
    THEN [priority_template |-> "balanced", weights |-> "none"]
    ELSE CHOOSE c \in d.objective_config : TRUE

VariablesOf(built) ==
    [tasks |-> built.tasks, dur_lo |-> built.dur_lo, dur_hi |-> built.dur_hi,
     horizon |-> built.horizon,
     resource_assignments |-> built.resource_assignments]

Abnormal == [status |-> "abnormal", solution |-> None]

\* the constraints build_constraints has posted when the qualification
\* step raises
PostedBeforeQualification(jobs, resources, preparation_tasks, tasks) ==
    _build_precedence_constraints(jobs, preparation_tasks, tasks)
    \cup _build_resource_constraints(jobs, preparation_tasks, resources, tasks)
    \cup _build_time_window_constraints(jobs, preparation_tasks)

\* the least objective value over a non-empty set of solutions
BestObjective(sols, jobs, preparation_tasks, tasks, weights) ==
    LET values == {ObjectiveValue(x, jobs, preparation_tasks, tasks, weights)
                   : x \in sols}
    IN  CHOOSE v \in values : \A w \in values : v <= w

\* solve: every way a call can end, as [drv: the driver afterwards,
\* raised: the exception that leaves the call or "", result: what is returned]
solve(d) ==
    IF ~d.initialized
    THEN {[drv |-> d, raised |-> "SolverError", result |-> None]}
    ELSE IF ~validate_input(d)
    THEN {[drv |-> [d EXCEPT !.last_result = Some(Abnormal)],
           raised |-> "SolverError", result |-> None]}
    ELSE
    LET built == build_constraints(d.jobs, d.resources, d.preparation_tasks,
                                   d.constraints_config)
        variables == VariablesOf(built)
        weights == ObjectiveWeights(ObjectiveConfigOf(d))
    IN
    IF QualificationMissing(d.jobs, d.resources)
    THEN {[drv |-> [d EXCEPT !.last_result = Some(Abnormal),
                             !.model = @ \cup
                                {[variables |-> variables,
                                  constraints |->
                                      PostedBeforeQualification(
                                          d.jobs, d.resources,
                                          d.preparation_tasks, variables.tasks)]}],
           raised |-> "SolverError", result |-> None]}
    ELSE IF NoObjectiveTerms(d.jobs, d.preparation_tasks, variables.tasks, weights)
    THEN {[drv |-> [d EXCEPT !.last_result = Some(Abnormal),
                             !.variables = Some(variables),
                             !.model = @ \cup
                                {[variables |-> variables,
                                  constraints |-> built.constraints]}],
           raised |-> "SolverError", result |-> None]}
    ELSE
    LET constraints ==
            built.constraints
            \cup ObjectiveConstraints(d.jobs, d.preparation_tasks, variables.tasks,
                                      weights)
        after == [d EXCEPT !.variables = Some(variables),
                           !.model = @ \cup {[variables |-> variables,
                                              constraints |-> constraints]}]
        sols == IF \A b \in d.model :
                      SatisfyingSolutions(b.variables, b.constraints) # {}
                THEN SatisfyingSolutions(variables, constraints)
                ELSE {}
        best == BestObjective(sols, d.jobs, d.preparation_tasks, variables.tasks,
                              weights)
        results ==
            {[status |-> "feasible", solution |-> Some(x)] : x \in sols}
            \cup
            {[status |-> "optimal", solution |-> Some(x)] :
                x \in {y \in sols :
                         ObjectiveValue(y, d.jobs, d.preparation_tasks,
                                        variables.tasks, weights) = best}}
            \cup
            {[status |-> "unknown", solution |-> None]}
            \cup
            (IF sols = {}
             THEN {[status |-> "infeasible", solution |-> None]}
             ELSE {})
    IN  {[drv |-> [after EXCEPT !.last_result = Some(r)],
          raised |-> "", result |-> Some(r)] : r \in results}

\* SolverResult.is_successful
is_successful(result) == result.status \in {"optimal", "feasible"}

\* get_schedule: [raised, schedule: None or the parsed Schedule]
get_schedule(d) ==
    IF d.last_result = None
       \/ \E r \in d.last_result : ~is_successful(r)
    THEN [raised |-> "", schedule |-> None]
    ELSE LET r == CHOOSE x \in d.last_result : TRUE
             variables == CHOOSE x \in d.variables : TRUE
         IN  IF ParseRaises(r, d.jobs, d.resources, d.preparation_tasks, variables)
             THEN [raised |-> "SolverError", schedule |-> None]
             ELSE [raised |-> "",
                   schedule |-> Some(parse_solution(r, d.jobs, d.resources,
                                                    d.preparation_tasks, variables))]

\* a clear that leaves the last result, and the variables it is parsed
\* with, in place
ClearKeepsResult(d) ==
    [d EXCEPT !.jobs = {}, !.resources = {}, !.preparation_tasks = {},
              !.constraints_config = None, !.objective_config = None,
              !.model = IF d.initialized THEN {} ELSE @]

\* a clear that goes on with the CpModel it has
ClearKeepsModel(d) ==
    [d EXCEPT !.jobs = {}, !.resources = {}, !.preparation_tasks = {},
              !.constraints_config = None, !.objective_config = None,
              !.variables = None, !.last_result = None]

clear(d) ==
    [d EXCEPT !.jobs = {}, !.resources = {}, !.preparation_tasks = {},
              !.constraints_config = None, !.objective_config = None,
              !.variables = None, !.last_result = None,
              !.model = IF d.initialized THEN {} ELSE @]

\* the driver holds no jobs, resources, preparation tasks, configuration,
\* model variables, posted constraints or result
HoldsNothing(d) ==
    /\ d.jobs = {}
    /\ d.resources = {}
    /\ d.preparation_tasks = {}
    /\ d.constraints_config = None
    /\ d.objective_config = None
    /\ d.variables = None
    /\ d.model = {}
    /\ d.last_result = None

(***************************************************************************)
(* The plans handed to the driver: a few families, each varying one part   *)
(* of a plan.                                                              *)
(***************************************************************************)
Balanced == [priority_template |-> "balanced", weights |-> "none"]

Plan(jobs, resources, preparation_tasks, objective_config) ==
    [jobs |-> jobs, resources |-> resources,
     preparation_tasks |-> preparation_tasks,
     constraints_config |-> Some(MaxHorizon),
     objective_config |-> objective_config]

EmptyPlan ==
    [jobs |-> {}, resources |-> {}, preparation_tasks |-> {},
     constraints_config |-> None, objective_config |-> Balanced]

\* a job with nothing but an id, a work package and predecessors
PlainJob(id, wp, preds) == Job(id, wp, JobMinutes, preds, {}, {}, None, None)

\* one person who can work on several jobs at once
Crew == HumanResource("H1", {}, 2)

\* dependency graphs over two jobs and a preparation task, with an unknown
\* predecessor and with cycles among them
PrecedencePlans ==
    {Plan({PlainJob("J1", "W1", p1), PlainJob("J2", "W1", p2)}, {Crew},
          {PreparationTask("P1", "W1", PrepMinutes, d, FALSE, {})}, Balanced)
     : p1 \in {{}, {"J2"}, {"P1"}},
       p2 \in {{}, {"J1"}, {"P1"}, {"J1", "P1"}, {"JX"}},
       d \in {{}, {"J1"}}}

\* two jobs and a physical resource that both, or only one, require
ExclusivePlans ==
    {Plan({Job("J1", "W1", JobMinutes, {}, {ResourceRequirement("R1", 1)},
               {}, None, None),
           Job("J2", "W1", JobMinutes, {}, r2, {}, None, None)},
          {PhysicalResource("R1", excl, None, 1)} \cup humans, {}, Balanced)
     : r2 \in {{}, {ResourceRequirement("R1", 1)}},
       excl \in BOOLEAN,
       humans \in {{HumanResource("H1", {}, 1)}, {Crew},
                   {HumanResource("H1", {}, 1), HumanResource("H2", {}, 1)}}}

\* a preparation task and a job that need the same exclusive asset
SharedAssetPlans ==
    {Plan({Job("J1", "W1", JobMinutes, {}, {ResourceRequirement("R1", 1)},
               {}, None, None)},
          {PhysicalResource("R1", TRUE, None, 1), Crew},
          {PreparationTask("P1", "W1", PrepMinutes, {}, FALSE,
                           {[asset_id |-> "R1", quantity |-> 1]})},
          Balanced)}

\* a pooled resource of one or two units and two jobs that need one or two
CumulativePlans ==
    {Plan({Job("J1", "W1", JobMinutes, {}, {ResourceRequirement("R1", q)},
               {}, None, None),
           Job("J2", "W1", JobMinutes, {}, {ResourceRequirement("R1", q)},
               {}, None, None)},
          {PhysicalResource("R1", FALSE, None, total), Crew}, {}, Balanced)
     : q \in {1, 2}, total \in {1, 2}}

\* plans without people, without resources, without tasks
PhysicalOnlyPlans ==
    {Plan({Job("J1", "W1", JobMinutes, {}, reqs, {}, None, None)},
          {PhysicalResource("R1", TRUE, None, 1)}, {}, Balanced)
     : reqs \in {{}, {ResourceRequirement("R1", 1)}}}
    \cup {Plan({PlainJob("J1", "W1", {})}, {}, {}, Balanced),
          Plan({}, {Crew}, {}, Balanced)}

\* a job that needs qualifications and two people who hold some
QualificationPlans ==
    {Plan({Job("J1", "W1", JobMinutes, {}, {}, q, None, None)},
          {HumanResource("H1", q1, 1), HumanResource("H2", q2, 1)}, {}, Balanced)
     : q \in SUBSET {"q1", "q2"}, q1 \in SUBSET {"q1", "q2"},
       q2 \in {{}, {"q2"}}}

\* a preparation task, gate or not, and a job in its work package or another
GatePlans ==
    {Plan({PlainJob("J1", wp, {})}, {Crew},
          {PreparationTask("P1", "W1", PrepMinutes, {}, gate, {})}, Balanced)
     : wp \in {"W1", "W2"}, gate \in BOOLEAN}

\* window bounds, in seconds after the plan's start
WindowStarts == {None, Some(-90), Some(0), Some(60), Some(90), Some(120)}
WindowEnds == {None, Some(150), Some(180), Some(240)}

WindowPlans ==
    {Plan({Job("J1", "W1", JobMinutes, {}, {}, {}, es, lf)}, {Crew}, {}, Balanced)
     : es \in WindowStarts, lf \in WindowEnds}

\* the objective templates and custom weights that switch every term off
ObjectivePlans ==
    {Plan({PlainJob("J1", "W1", {}),
           Job("J2", "W1", JobMinutes, {"J1"}, {}, {}, None, Some(180))},
          {Crew}, {},
          [priority_template |-> template, weights |-> w])
     : template \in {"balanced", "protect_sla", "cost_min", "custom"},
       w \in {"none", "all_zero"}}

\* the plans of a caller that makes its calls in any order and uses the
\* driver again after clear: one that can be scheduled, one whose job needs
\* a qualification nobody holds, one whose two jobs wait for each other
SessionPlans ==
    {Plan({PlainJob("J1", "W1", {})}, {HumanResource("H1", {}, 1)}, {}, Balanced),
     Plan({Job("J2", "W1", JobMinutes, {}, {}, {"q1"}, None, None)},
          {HumanResource("H2", {}, 1)}, {}, Balanced),
     Plan({PlainJob("J3", "W2", {"J4"}), PlainJob("J4", "W2", {"J3"})},
          {HumanResource("H1", {}, 1)}, {}, Balanced)}

DriverPlans ==
    PrecedencePlans \cup ExclusivePlans \cup SharedAssetPlans
    \cup CumulativePlans \cup PhysicalOnlyPlans \cup QualificationPlans
    \cup GatePlans \cup WindowPlans \cup ObjectivePlans

(***************************************************************************)
(* The scheduling service (services/scheduling_service.py).  A request is  *)
(*   [work_packages, assets, humans, config]; a work package is            *)
(*   [work_package_id, job_details, jobs, materials]; the config carries   *)
(*   prep_window (the planning window, here in minutes), objective_template*)
(*   and weights, each None when the key is absent.                        *)
(***************************************************************************)
Exception(type, code, violated_constraints) ==
    [type |-> type, code |-> code, violated_constraints |-> violated_constraints]

SolverError == Exception("SolverError", "SOLVER_ERROR", {})
ValidationError == Exception("ValidationError", "VALIDATION_ERROR", {})
ResourceConflictError == Exception("ResourceConflictError", "RESOURCE_CONFLICT", {})
ConstraintViolationError(violated_constraints) ==
    Exception("ConstraintViolationError", "CONSTRAINT_VIOLATION",
              violated_constraints)
\* pydantic's ValidationError, raised by a model's constructor: it has no
\* error_code and no details
PydanticValidationError == Exception("ValidationError", "", {})

\* the values of PriorityTemplate
PriorityTemplates == {"balanced", "protect_sla", "cost_min"}

\* a create_schedule that skips the request's validation
NoRequestValidation(request) == None

\* _validate_request: the exception it raises, or None
_validate_request(request) ==
    IF request.work_packages = {} THEN Some(ValidationError)
    ELSE IF request.assets = {} /\ request.humans = {} THEN Some(ValidationError)
    ELSE IF \E w \in request.config.prep_window : w <= 0
    THEN Some(ValidationError)
    ELSE IF \E t \in request.config.objective_template : t \notin PriorityTemplates
    THEN Some(ValidationError)
    ELSE None

\* the jobs _parse_request_data makes of one work package
JobsOfWorkPackage(wp) ==
    IF wp.job_details # {}
    THEN {Job(job_data.job_id, wp.work_package_id, job_data.base_minutes,
              job_data.predecessor_jobs,
              {ResourceRequirement(r, 1) : r \in job_data.required_resources},
              job_data.required_qualifications, None, None)
          : job_data \in wp.job_details}
    ELSE {Job(job_id, wp.work_package_id, DefaultJobMinutes, {}, {}, {},
              None, None)
          : job_id \in wp.jobs}

PrepId(material_id) == "PREP-" \o material_id

PreparationTasksOfWorkPackage(wp) ==
    {PreparationTask(PrepId(material.material_id), wp.work_package_id,
                     MaterialPrepMinutes, {}, material.must_kit, {})
     : material \in wp.materials}

\* _parse_request_data: [raised, jobs, resources, preparation_tasks].  The
\* constructor of Job rejects a job that is its own predecessor; the
\* constructor of PhysicalResource is called without the required
\* resource_type and rejects every asset.
_parse_request_data(request) ==
    LET jobs == UNION {JobsOfWorkPackage(wp) : wp \in request.work_packages}
        humans == {HumanResource(h.employee_id, h.qualifications, 1)
                   : h \in request.humans}
        preparation_tasks ==
            UNION {PreparationTasksOfWorkPackage(wp) : wp \in request.work_packages}
    IN  IF \E j \in jobs : j.job_id \in j.predecessor_jobs
        THEN [raised |-> Some(PydanticValidationError), jobs |-> {},
              resources |-> {}, preparation_tasks |-> {}]
        ELSE IF request.assets # {}
        THEN [raised |-> Some(PydanticValidationError), jobs |-> {},
              resources |-> {}, preparation_tasks |-> {}]
        ELSE [raised |-> None, jobs |-> jobs, resources |-> humans,
              preparation_tasks |-> preparation_tasks]

\* dependencies.get(node, [])
Neighbors(jobs, preparation_tasks, node) ==
    UNION ({j.predecessor_jobs : j \in {x \in jobs : x.job_id = node}}
           \cup {t.dependencies : t \in {x \in preparation_tasks : x.prep_id = node}})

RECURSIVE has_cycle(_, _, _, _, _)
RECURSIVE VisitNeighbors(_, _, _, _, _)
\* the depth-first search of _check_circular_dependencies:
\* [found: a node of rec_stack was met again, visited: the nodes seen so far]
has_cycle(jobs, preparation_tasks, node, visited, rec_stack) ==
    IF node \in rec_stack THEN [found |-> TRUE, visited |-> visited]
    ELSE IF node \in visited THEN [found |-> FALSE, visited |-> visited]
    ELSE VisitNeighbors(jobs, preparation_tasks,
                        Neighbors(jobs, preparation_tasks, node),
                        visited \cup {node}, rec_stack \cup {node})

\* the loop over the neighbours of a node
VisitNeighbors(jobs, preparation_tasks, todo, visited, rec_stack) ==
    IF todo = {} THEN [found |-> FALSE, visited |-> visited]
    ELSE LET neighbor == CHOOSE n \in todo : TRUE
             r == has_cycle(jobs, preparation_tasks, neighbor, visited, rec_stack)
         IN  IF r.found THEN r
             ELSE VisitNeighbors(jobs, preparation_tasks, todo \ {neighbor},
                                 r.visited, rec_stack)

RECURSIVE CheckFrom(_, _, _, _)
\* the loop over the task ids of the dependency graph
CheckFrom(jobs, preparation_tasks, todo, visited) ==
    IF todo = {} THEN FALSE
    ELSE LET task_id == CHOOSE n \in todo : TRUE
         IN  IF task_id \in visited
             THEN CheckFrom(jobs, preparation_tasks, todo \ {task_id}, visited)
             ELSE LET r == has_cycle(jobs, preparation_tasks, task_id, visited, {})
                  IN  r.found \/ CheckFrom(jobs, preparation_tasks,
                                           todo \ {task_id}, r.visited)

\* _check_circular_dependencies: the exception it raises, or None
_check_circular_dependencies(jobs, preparation_tasks) ==
    IF CheckFrom(jobs, preparation_tasks, TaskIds(jobs, preparation_tasks), {})
    THEN Some(ConstraintViolationError({"no_circular_dependencies"}))
    ELSE None

\* resource.exclusive_group or resource.resource_id
GroupOf(resource) ==
    IF resource.exclusive_group = None THEN resource.resource_id
    ELSE CHOOSE g \in resource.exclusive_group : TRUE

\* _validate_business_rules: the exception it raises, or None
_validate_business_rules(jobs, resources, preparation_tasks) ==
    IF \E r1 \in resources : \E r2 \in resources :
          /\ r1 # r2
          /\ r1.kind = "physical" /\ r1.is_exclusive
          /\ r2.kind = "physical" /\ r2.is_exclusive
          /\ GroupOf(r1) = GroupOf(r2)
    THEN Some(ResourceConflictError)
    ELSE _check_circular_dependencies(jobs, preparation_tasks)

\* constraints_config of _execute_scheduling: config.get("prep_window_days", 2)
ServiceConstraintsConfig(config) ==
    IF config.prep_window = None THEN Some(DefaultPrepWindowMinutes)
    ELSE config.prep_window

\* objective_config of _execute_scheduling
ServiceObjectiveConfig(config) ==
    [priority_template |->
         IF config.objective_template = None THEN "balanced"
         ELSE CHOOSE t \in config.objective_template : TRUE,
     weights |-> config.weights]

\* _generate_gate_status
_generate_gate_status(preparation_tasks) ==
    {[gate |-> "critical_tools_ready", passed |-> TRUE],
     [gate |-> "materials_ready",
      passed |-> ~\E t \in preparation_tasks : t.is_gate]}

\* _generate_preparation_tasks
_generate_preparation_tasks(preparation_tasks, sch) ==
    {[prep_id |-> t.prep_id, is_gate |-> t.is_gate,
      work_package_id |-> t.work_package_id,
      interval |-> {[start |-> i.start_time, end |-> i.end_time]
                    : i \in {x \in sch.task_intervals : x.task_id = t.prep_id}}]
     : t \in preparation_tasks}

\* a response whose constructor call leaves the error out
ResponseWithoutError(sch, gates, preparation_tasks, error) ==
    [schedule |-> sch, gates |-> gates,
     preparation_tasks |-> preparation_tasks, error |-> None]

\* the SchedulingResponse create_schedule returns
SchedulingResponse(sch, gates, preparation_tasks, error) ==
    [schedule |-> sch, gates |-> gates,
     preparation_tasks |-> preparation_tasks, error |-> error]

\* error_info of the except branch: type(e).__name__ and e.details
error_info(e) == [code |-> e.type, violated_constraints |-> e.violated_constraints]

(***************************************************************************)
(* The requests handed to create_schedule.                                 *)
(***************************************************************************)
Config(prep_window, objective_template, weights) ==
    [prep_window |-> prep_window, objective_template |-> objective_template,
     weights |-> weights]

Request(work_packages, assets, humans, config) ==
    [work_packages |-> work_packages, assets |-> assets, humans |-> humans,
     config |-> config]

NoRequest == Request({}, {}, {}, Config(None, None, "none"))

WorkPackage(id, job_details, jobs, materials) ==
    [work_package_id |-> id, job_details |-> job_details, jobs |-> jobs,
     materials |-> materials]

JobData(id, preds, quals) ==
    [job_id |-> id, base_minutes |-> JobMinutes, required_resources |-> {},
     required_qualifications |-> quals, predecessor_jobs |-> preds]

Employee(id, quals) == [employee_id |-> id, qualifications |-> quals]

Asset(id, critical) ==
    [asset_id |-> id, is_critical |-> critical, exclusive_group |-> None]

ShortWindow == Config(Some(MaxHorizon), None, "none")

\* dependency graphs over two detailed jobs: acyclic ones, a job that is
\* its own predecessor, a cycle of two, an unknown predecessor
DependencyRequests ==
    {Request({WorkPackage("W1", {JobData("J1", p1, {}), JobData("J2", p2, {})},
                          {}, {})},
             {}, {Employee("H1", {})}, ShortWindow)
     : p1 \in {{}, {"J2"}, {"J1"}}, p2 \in {{}, {"J1"}, {"JX"}}}

\* a cycle that the depth-first search meets after an acyclic part
LateCycleRequests ==
    {Request({WorkPackage("W1", {JobData("J1", {}, {}), JobData("J2", {"J3"}, {}),
                                 JobData("J3", p3, {})}, {}, {})},
             {}, {Employee("H1", {})}, ShortWindow)
     : p3 \in {{"J1"}, {"J2"}}}

\* work packages, assets and people present or absent; the job of the
\* work package has no details and takes the default four hours
ResourceRequests ==
    {Request(wps, assets, humans, ShortWindow)
     : wps \in {{}, {WorkPackage("W1", {}, {"J1"}, {})}},
       assets \in {{}, {Asset("CRANE-001", FALSE)}, {Asset("CRANE-001", TRUE)}},
       humans \in {{}, {Employee("H1", {})}}}

\* a material, to be kitted before the work package or not
MaterialRequests ==
    {Request({WorkPackage("W1", {JobData("J1", {}, {})}, {},
                          {[material_id |-> "M1", must_kit |-> must_kit]})},
             {}, {Employee("H1", {})}, Config(Some(ServiceHorizon), None, "none"))
     : must_kit \in BOOLEAN}

\* the keys of the config
ConfigRequests ==
    {Request({WorkPackage("W1", {JobData("J1", {}, {})}, {}, {})},
             {}, {Employee("H1", {})}, Config(w, t, weights))
     : w \in {Some(0), Some(MaxHorizon)},
       t \in {None, Some("protect_sla"), Some("fastest")},
       weights \in {"none", "all_zero"}}

\* a required qualification that somebody, or nobody, holds
QualificationRequests ==
    {Request({WorkPackage("W1", {JobData("J1", {}, {"q1"})}, {}, {})},
             {}, {Employee("H1", quals)}, ShortWindow)
     : quals \in {{}, {"q1"}}}

\* two critical assets, in the same exclusive group or each in its own
ExclusiveGroupRequests ==
    {Request({WorkPackage("W1", {JobData("J1", {}, {})}, {}, {})},
             {[asset_id |-> "CRANE-001", is_critical |-> TRUE,
               exclusive_group |-> Some("G1")],
              [asset_id |-> "CRANE-002", is_critical |-> TRUE,
               exclusive_group |-> g]},
             {Employee("H1", {})}, ShortWindow)
     : g \in {Some("G1"), Some("G2")}}

ServiceRequests ==
    DependencyRequests \cup LateCycleRequests \cup ResourceRequests
    \cup MaterialRequests \cup ConfigRequests \cup QualificationRequests
    \cup ExclusiveGroupRequests

(***************************************************************************)
(* The event service (services/event_service.py, models/event.py).  Times  *)
(* are whole hours before (negative) or after the moment of the call.  An  *)
(* event's data is what the caller puts in the list given to apply_events; *)
(* a payload field that is absent is None.                                 *)
(***************************************************************************)
EventProcessingError ==
    Exception("EventProcessingError", "EVENT_PROCESSING_ERROR", {})

EventData(well_formed, event_type, effective_time, expires_at, scope, payload) ==
    [well_formed |-> well_formed, event_type |-> event_type,
     effective_time |-> effective_time, expires_at |-> expires_at,
     scope |-> scope, payload |-> payload, policy |-> "replan_unstarted"]

\* the same event data with the policy the caller chose for it
WithPolicy(data, policy) == [data EXCEPT !.policy = policy]

\* the Event create_event builds of the i-th element of the list
Event(i, data) ==
    [event_id |-> i, event_type |-> data.event_type,
     effective_time |-> data.effective_time, expires_at |-> data.expires_at,
     scope |-> data.scope, payload |-> data.payload, policy |-> data.policy,
     status |-> "pending", processing_result |-> None, error_message |-> None]

\* datetime.now() > expires_at, with now = 0
is_expired(event) == \E t \in event.expires_at : 0 > t

\* datetime.now() >= effective_time
is_effective(event) == 0 >= event.effective_time

\* EventScope.is_empty; the scope is the union of its five lists
is_empty(scope) == scope = {}

mark_processing(event) == [event EXCEPT !.status = "processing"]

\* if result: self.processing_result = result
mark_completed(event, result) ==
    [event EXCEPT !.status = "completed",
                  !.processing_result = IF DOMAIN result = {} THEN @ ELSE Some(result)]

\* an event whose failure is stored without a change of its status
MarkFailedKeepsStatus(event, error_message) ==
    [event EXCEPT !.error_message = Some(error_message)]

mark_failed(event, error_message) ==
    [event EXCEPT !.status = "failed", !.error_message = Some(error_message)]

\* _validate_event: the message of the ValidationError it raises, or None
_validate_event(event) ==
    IF is_expired(event) THEN Some("has expired")
    ELSE IF ~is_effective(event) THEN Some("is not yet effective")
    ELSE IF is_empty(event.scope) THEN Some("has empty scope")
    ELSE None

\* the event types _register_processors registers a processor for
RegisteredProcessors == {"eta_change", "sap_update", "weather"}

\* get_typed_payload raises when a required field of the payload class is
\* absent
PayloadDecodes(event) ==
    CASE event.event_type = "eta_change" -> event.payload.new_eta # None
      [] event.event_type = "sap_update" -> event.payload.new_status # None
      [] event.event_type = "weather" -> event.payload.severity # None
      [] OTHER -> FALSE

\* _analyze_eta_impact: without a schedule nothing is affected
_analyze_eta_impact(payload, current_schedule) ==
    IF current_schedule = None THEN {}
    ELSE {interval.task_id :
            interval \in {x \in (CHOOSE sch \in current_schedule : TRUE).task_intervals :
                            \/ \E r \in payload.resource_id : r \in x.assigned_resources
                            \/ \E m \in payload.material_id : m \in x.required_materials}}

\* ETAChangeProcessor.process
ETAChangeProcess(event, current_schedule) ==
    LET payload == event.payload
        delay_hours ==
            IF payload.old_eta # None /\ payload.new_eta # None
            THEN (CHOOSE t \in payload.new_eta : TRUE)
                 - (CHOOSE t \in payload.old_eta : TRUE)
            ELSE 0
    IN  [affected_tasks |-> _analyze_eta_impact(payload, current_schedule),
         delay_hours |-> delay_hours,
         requires_replan |-> 2 * delay_hours > 1,
         impact_level |-> IF delay_hours > 4 THEN "high"
                          ELSE IF delay_hours > 1 THEN "medium" ELSE "low"]

\* SAPUpdateProcessor.process
SAPUpdateProcess(event, current_schedule) ==
    LET new_status == CHOOSE x \in event.payload.new_status : TRUE
    IN  [instruction_id |-> event.payload.instruction_id,
         requires_replan |->
             new_status \in {"approved", "released", "rejected", "cancelled"},
         impact_level |-> IF new_status \in {"approved", "released"} THEN "medium"
                          ELSE IF new_status \in {"rejected", "cancelled"} THEN "high"
                          ELSE "low"]

\* _analyze_weather_impact
_analyze_weather_impact(payload) ==
    IF payload.weather_type \in {"typhoon", "storm", "heavy_rain"}
    THEN (IF "outdoor_area" \in payload.affected_areas
          THEN {"CRANE-1", "CRANE-2"} ELSE {})
         \cup (IF "crane_zone" \in payload.affected_areas
               THEN {"CRANE-3", "CRANE-4"} ELSE {})
    ELSE {}

\* WeatherEventProcessor.process
WeatherProcess(event, current_schedule) ==
    LET severity == CHOOSE x \in event.payload.severity : TRUE
    IN  [weather_type |-> event.payload.weather_type,
         severity |-> severity,
         affected_areas |-> event.payload.affected_areas,
         affected_resources |-> _analyze_weather_impact(event.payload),
         requires_replan |-> severity \in {"high", "critical"},
         impact_level |-> severity]

\* processor.process(event, current_schedule) of the registered processor
ProcessorResult(event, current_schedule) ==
    CASE event.event_type = "eta_change" -> ETAChangeProcess(event, current_schedule)
      [] event.event_type = "sap_update" -> SAPUpdateProcess(event, current_schedule)
      [] event.event_type = "weather" -> WeatherProcess(event, current_schedule)

\* one entry of event_logs
EventLog(event, level, message) ==
    [event_id |-> event.event_id, level |-> level, message |-> message]

\* apply_events calls self.process_event(event): current_schedule takes its
\* default
DefaultCurrentSchedule == None

\* the accumulators of apply_events before the loop
NoEffects == [affected_tasks |-> {}, delays |-> <<>>, total_delay_hours |-> 0]

\* the value apply_events returns
ApplyResult(effects) ==
    [diff |-> [affected_tasks |-> effects.affected_tasks,
               delays |-> effects.delays,
               resource_reallocation |-> <<>>],
     new_makespan |-> BaseMakespanHours + effects.total_delay_hours]

(***************************************************************************)
(* The lists of events handed to apply_events.                             *)
(***************************************************************************)
ETAPayload(old_eta, new_eta) ==
    [material_id |-> Some("M1"), resource_id |-> None,
     old_eta |-> old_eta, new_eta |-> new_eta]

SAPPayload(new_status) == [instruction_id |-> "SAP-001", new_status |-> new_status]

WeatherPayload(severity) ==
    [weather_type |-> "typhoon", severity |-> severity,
     affected_areas |-> {"outdoor_area"}]

\* events that are processed, events whose processing fails, events that
\* fail validation, and an element of the list that is no EventCreate
EventKinds ==
    {EventData(TRUE, "eta_change", -1, None, {"J1"}, ETAPayload(Some(2), Some(6))),
     EventData(TRUE, "eta_change", -1, None, {"J1"}, ETAPayload(None, Some(6))),
     EventData(TRUE, "eta_change", -1, None, {"J1"}, ETAPayload(Some(2), None)),
     EventData(TRUE, "sap_update", -1, Some(1), {"J1"}, SAPPayload(Some("approved"))),
     EventData(TRUE, "weather", 0, None, {"CRANE-1"}, WeatherPayload(Some("high"))),
     EventData(TRUE, "third_party_ack", -1, None, {"J1"}, SAPPayload(None)),
     EventData(TRUE, "resource_unavailable", -1, None, {"CRANE-1"}, SAPPayload(None)),
     WithPolicy(EventData(TRUE, "sap_update", -1, None, {"J1"},
                          SAPPayload(Some("released"))), "manual_review"),
     EventData(TRUE, "sap_update", -2, Some(-1), {"J1"}, SAPPayload(Some("approved"))),
     EventData(TRUE, "sap_update", 1, None, {"J1"}, SAPPayload(Some("approved"))),
     EventData(TRUE, "sap_update", -1, None, {}, SAPPayload(Some("approved"))),
     EventData(FALSE, "sap_update", -1, None, {"J1"}, SAPPayload(Some("approved")))}

RECURSIVE EventLists(_)
\* the lists of at most n events
EventLists(n) ==
    IF n = 0 THEN {<<>>}
    ELSE LET shorter == EventLists(n - 1)
         IN  shorter \cup {Append(l, e) : l \in shorter, e \in EventKinds}

(***************************************************************************)
(* The gate service (services/gate_service.py) and the gate of a           *)
(* preparation task (models/preparation.py).  A condition or an action of  *)
(* a check result is a pair of its wording and the id it is about.         *)
(***************************************************************************)
GateTypes ==
    {"critical_tools_ready", "materials_ready", "doc_ready",
     "assessment_complete", "qec_shelf_handover", "inventory_check",
     "sap_instruction"}

GateCheckResult(gate_type, status, passed_conditions, failed_conditions, required_actions) ==
    [gate_type |-> gate_type, status |-> status,
     passed_conditions |-> passed_conditions,
     failed_conditions |-> failed_conditions,
     required_actions |-> required_actions]

ToolAsset(id, is_critical, is_ready, is_allocated) ==
    [asset_id |-> id, is_critical |-> is_critical, is_ready |-> is_ready,
     is_allocated |-> is_allocated]

MaterialItem(id, must_kit, allow_partial, required, available, slot, assigned_at) ==
    [material_id |-> id, must_kit |-> must_kit, allow_partial |-> allow_partial,
     required_quantity |-> required, available_quantity |-> available,
     qec_shelf_slot |-> slot, shelf_assigned_at |-> assigned_at]

is_sufficient(material) ==
    IF material.must_kit
    THEN material.available_quantity >= material.required_quantity
    ELSE material.available_quantity > 0

\* the gate of a preparation task
Gate(gate_type, required_conditions, failed_conditions) ==
    [gate_type |-> gate_type, is_passed |-> FALSE,
     required_conditions |-> required_conditions,
     failed_conditions |-> failed_conditions,
     reported |-> {}]     \* history: the conditions last reported as passed

\* the preparation task as the gate service and the handover see it
PrepTask(id, type, status, gate, evidence_required) ==
    [prep_id |-> id, type |-> type, status |-> status, gate |-> gate,
     evidence_required |-> evidence_required, submitted_evidence |-> <<>>]

Evidence(evidence_type, verified) ==
    [evidence_type |-> evidence_type, verified |-> verified]

\* list.remove: the list without the first occurrence of x
Remove(list, x) ==
    LET i == CHOOSE k \in DOMAIN list :
                 list[k] = x /\ \A j \in 1..(k - 1) : list[j] # x
    IN  SubSeq(list, 1, i - 1) \o SubSeq(list, i + 1, Len(list))

Range(list) == {list[i] : i \in DOMAIN list}

\* Gate.check_condition
check_condition(gate, condition, passed) ==
    LET failed ==
            IF passed
            THEN IF condition \in Range(gate.failed_conditions)
                 THEN Remove(gate.failed_conditions, condition)
                 ELSE gate.failed_conditions
            ELSE IF condition \notin Range(gate.failed_conditions)
                 THEN Append(gate.failed_conditions, condition)
                 ELSE gate.failed_conditions
    IN  [gate EXCEPT !.failed_conditions = failed, !.is_passed = Len(failed) = 0,
                     !.reported = IF passed THEN @ \cup {condition}
                                  ELSE @ \ {condition}]

\* PreparationTask.submit_evidence
submit_evidence(task, evidence) ==
    LET submitted == Append(task.submitted_evidence, evidence)
        submitted_types ==
            {submitted[i].evidence_type :
                 i \in {j \in DOMAIN submitted : submitted[j].verified}}
    IN  [task EXCEPT
             !.submitted_evidence = submitted,
             !.gate = IF task.evidence_required \subseteq submitted_types
                      THEN {check_condition(g, "evidence_complete", TRUE) : g \in @}
                      ELSE @]

\* PreparationTask.complete_task
complete_task(task) ==
    [task EXCEPT !.status = "completed",
                 !.gate = {check_condition(g, "task_complete", TRUE) : g \in @}]

\* the conditions, in the order of the list, of the items a check keeps
Conditions(items, Keep(_), Wording(_)) ==
    LET kept == SelectSeq(items, Keep)
    IN  [i \in 1..Len(kept) |-> Wording(kept[i])]

_check_critical_tools_gate(context) ==
    LET critical_tools == SelectSeq(context.tools, LAMBDA t : t.is_critical)
        Ready(t) == t.is_ready /\ t.is_allocated
        failed == Conditions(critical_tools, LAMBDA t : ~Ready(t),
                             LAMBDA t : <<"Critical tool not ready", t.asset_id>>)
    IN  GateCheckResult(
            "critical_tools_ready",
            IF Len(critical_tools) = 0 \/ Len(failed) = 0 THEN "passed" ELSE "failed",
            Conditions(critical_tools, Ready,
                       LAMBDA t : <<"Critical tool ready", t.asset_id>>),
            failed,
            Conditions(critical_tools, LAMBDA t : ~Ready(t),
                       LAMBDA t : <<"Allocate and prepare tool", t.asset_id>>))

_check_materials_gate(context) ==
    LET must_kit_materials == SelectSeq(context.materials, LAMBDA m : m.must_kit)
        partial_materials ==
            SelectSeq(context.materials, LAMBDA m : m.allow_partial /\ ~m.must_kit)
        failed == Conditions(must_kit_materials, LAMBDA m : ~is_sufficient(m),
                             LAMBDA m : <<"Material insufficient", m.material_id>>)
    IN  GateCheckResult(
            "materials_ready",
            IF Len(must_kit_materials) = 0 \/ Len(failed) = 0
            THEN "passed" ELSE "failed",
            Conditions(must_kit_materials, is_sufficient,
                       LAMBDA m : <<"Material sufficient", m.material_id>>)
            \o Conditions(partial_materials, LAMBDA m : m.available_quantity > 0,
                          LAMBDA m : <<"Partial material available", m.material_id>>),
            failed,
            Conditions(must_kit_materials, LAMBDA m : ~is_sufficient(m),
                       LAMBDA m : <<"Ensure material availability", m.material_id>>))

\* _check_doc_ready_gate and _check_assessment_gate: the same check of the
\* tasks of one type
TasksCompletedGate(gate_type, type, context) ==
    LET tasks == SelectSeq(context.preparation_tasks, LAMBDA t : t.type = type)
        failed == Conditions(tasks, LAMBDA t : t.status # "completed",
                             LAMBDA t : <<"task not completed", t.prep_id>>)
    IN  GateCheckResult(
            gate_type,
            IF Len(failed) = 0 THEN "passed" ELSE "failed",
            Conditions(tasks, LAMBDA t : t.status = "completed",
                       LAMBDA t : <<"task completed", t.prep_id>>)
            \o (IF Len(tasks) = 0 THEN << <<"none required", gate_type>> >> ELSE <<>>),
            failed,
            Conditions(tasks, LAMBDA t : t.status # "completed",
                       LAMBDA t : <<"Complete", t.prep_id>>))

_check_qec_shelf_gate(context) ==
    LET shelf_materials ==
            SelectSeq(context.materials, LAMBDA m : m.qec_shelf_slot # None)
        failed == Conditions(shelf_materials, LAMBDA m : m.shelf_assigned_at = None,
                             LAMBDA m : <<"Material not assigned to shelf", m.material_id>>)
    IN  GateCheckResult(
            "qec_shelf_handover",
            IF Len(failed) = 0 THEN "passed" ELSE "failed",
            Conditions(shelf_materials, LAMBDA m : m.shelf_assigned_at # None,
                       LAMBDA m : <<"Material assigned to shelf", m.material_id>>)
            \o (IF Len(shelf_materials) = 0
                THEN << <<"none required", "qec_shelf_handover">> >> ELSE <<>>),
            failed,
            Conditions(shelf_materials, LAMBDA m : m.shelf_assigned_at = None,
                       LAMBDA m : <<"Assign material to QEC shelf", m.material_id>>))

\* _check_inventory_check and _check_sap_instruction_gate
AssumedPassed(gate_type) ==
    GateCheckResult(gate_type, "passed", << <<"completed", gate_type>> >>, <<>>, <<>>)

check_gate(gate_type, context) ==
    CASE gate_type = "critical_tools_ready" -> _check_critical_tools_gate(context)
      [] gate_type = "materials_ready" -> _check_materials_gate(context)
      [] gate_type = "doc_ready" -> TasksCompletedGate(gate_type, "doc_ready", context)
      [] gate_type = "assessment_complete"
             -> TasksCompletedGate(gate_type, "assessment", context)
      [] gate_type = "qec_shelf_handover" -> _check_qec_shelf_gate(context)
      [] OTHER -> AssumedPassed(gate_type)

\* an evaluation that, as it goes, marks every tool it looks at as ready
\* and allocated
CheckAllGatesPreparing(context) ==
    [results |-> [g \in GateTypes |-> check_gate(g, context)],
     context |-> [context EXCEPT !.tools =
                      [i \in DOMAIN @ |-> [@[i] EXCEPT !.is_ready = TRUE,
                                                       !.is_allocated = TRUE]]]]

\* check_all_gates: the result of every gate type, and the objects of the
\* context as the evaluation leaves them
check_all_gates(context) ==
    [results |-> [g \in GateTypes |-> check_gate(g, context)],
     context |-> context]

\* the evidence given to confirm_handover: a key that is absent is None
EvidenceDict(handover_form, photo, signature) ==
    [handover_form |-> handover_form, photo |-> photo, signature |-> signature]

Signature(by, time) == [by |-> by, time |-> time]

\* _validate_evidence: the message of the ValidationError it raises, or None
_validate_evidence(evidence) ==
    IF evidence.handover_form = None \/ evidence.photo = None
       \/ evidence.signature = None
    THEN Some("Missing required evidence field")
    ELSE IF \E s \in evidence.signature : s.by = None \/ s.time = None
    THEN Some("Invalid signature format")
    ELSE None

\* confirm_handover: what it returns
confirm_handover(prep_id, evidence) ==
    IF _validate_evidence(evidence) = None
    THEN [status |-> "ok", updated_gate |-> "qec_shelf_handover", passed |-> TRUE]
    ELSE [status |-> "error", error |-> _validate_evidence(evidence)]

(***************************************************************************)
(* The contexts the gates are evaluated on, the task whose gate is         *)
(* followed, and the evidence handed over.                                 *)
(***************************************************************************)
ToolLists ==
    <<<<>>,
     <<ToolAsset("CRANE-1", TRUE, TRUE, TRUE), ToolAsset("JIG-1", FALSE, FALSE, FALSE)>>,
     <<ToolAsset("CRANE-1", TRUE, TRUE, FALSE), ToolAsset("CRANE-2", TRUE, TRUE, TRUE)>> >>

MaterialLists ==
    <<<<>>,
     <<MaterialItem("M1", TRUE, FALSE, 2, 2, Some("A-01"), Some(0)),
       MaterialItem("M2", FALSE, TRUE, 2, 1, None, None)>>,
     <<MaterialItem("M1", TRUE, FALSE, 2, 1, Some("A-01"), None)>> >>

GateConditions == {"task_complete", "evidence_complete"}

GateLists == {<<>>, <<"task_complete", "evidence_complete">>}

\* the task the handover is about: a document task with or without a gate
HandoverTasks ==
    {PrepTask("P1", type, "not_started", gate, {"handover_form"}) :
         type \in {"doc_ready"},
         gate \in {None}
                  \cup {Some(Gate("doc_ready", <<"task_complete", "evidence_complete">>,
                                  failed)) : failed \in GateLists}}

EvidenceDicts ==
    {EvidenceDict(Some("form"), Some("photo"), Some(Signature(Some("E-001"), Some(0)))),
     EvidenceDict(None, Some("photo"), Some(Signature(Some("E-001"), Some(0)))),
     EvidenceDict(Some("form"), None, Some(Signature(Some("E-001"), Some(0)))),
     EvidenceDict(Some("form"), Some("photo"), Some(Signature(None, Some(0)))),
     EvidenceDict(Some("form"), Some("photo"), Some(Signature(Some("E-001"), None)))}

SubmittedEvidence ==
    {Evidence("handover_form", TRUE), Evidence("handover_form", FALSE)}

\* check_all_gates is called with the task, the materials and the tools
GateContext(task, materials, tools) ==
    [preparation_tasks |-> <<task>>, materials |-> materials, tools |-> tools,
     schedule |-> None]

GateContexts ==
    {GateContext(task, MaterialLists[i], ToolLists[i]) :
         task \in HandoverTasks, i \in DOMAIN ToolLists}

\* no gate service is in use
NoContext ==
    [preparation_tasks |-> <<>>, materials |-> <<>>, tools |-> <<>>,
     schedule |-> None]

(***************************************************************************)
(* The resource service (services/resource_service.py): a cache of         *)
(* resources and, for each, the list of its allocations (the ledger).      *)
(* Times are whole hours.                                                  *)
(***************************************************************************)
ResourceAvailability(start_time, end_time, status) ==
    [start_time |-> start_time, end_time |-> end_time, status |-> status]

Resource(id, is_active, current_status, available_quantity, group, periods, hourly_cost) ==
    [resource_id |-> id, is_active |-> is_active,
     current_status |-> current_status,
     available_quantity |-> available_quantity, exclusive_group |-> group,
     calendar |-> None, availability_periods |-> periods,
     hourly_cost |-> hourly_cost]

ResourceAllocation(resource_id, allocated_to, quantity, start_time, end_time, cost) ==
    [resource_id |-> resource_id, allocated_to |-> allocated_to,
     quantity |-> quantity, start_time |-> start_time, end_time |-> end_time,
     status |-> "allocated", cost |-> cost]

\* Resource.is_available_at: the first period that holds dt decides
is_available_at(resource, dt) ==
    LET holding == {i \in DOMAIN resource.availability_periods :
                        /\ resource.availability_periods[i].start_time <= dt
                        /\ dt <= resource.availability_periods[i].end_time}
    IN  IF ~resource.is_active THEN FALSE
        ELSE IF \E working \in resource.calendar : dt \notin working THEN FALSE
        ELSE IF holding # {}
        THEN resource.availability_periods[
                 CHOOSE i \in holding : \A j \in holding : i <= j].status = "available"
        ELSE resource.current_status = "available"

get_available_quantity_at(resource, dt) ==
    IF is_available_at(resource, dt) THEN resource.available_quantity ELSE 0

\* periods that overlap only when they start together
OverlapOnlyAtSameStart(start1, end1, start2, end2) ==
    start1 = start2

_time_periods_overlap(start1, end1, start2, end2) ==
    ~(end1 <= start2 \/ end2 <= start1)

\* self._allocation_cache.get(resource_id, [])
AllocationsOf(ledger, resource_id) ==
    IF resource_id \in DOMAIN ledger THEN ledger[resource_id] ELSE <<>>

_get_allocations_in_period(ledger, resource_id, start_time, end_time) ==
    SelectSeq(AllocationsOf(ledger, resource_id),
              LAMBDA alloc : _time_periods_overlap(start_time, end_time,
                                                   alloc.start_time, alloc.end_time))

RECURSIVE SumQuantities(_)
SumQuantities(allocations) ==
    IF allocations = <<>> THEN 0
    ELSE allocations[1].quantity + SumQuantities(Tail(allocations))

\* an availability check that looks at the resource alone
AvailabilityIgnoringLedger(cache, ledger, resource_id, start_time, end_time, required_quantity) ==
    /\ resource_id \in DOMAIN cache
    /\ is_available_at(cache[resource_id], start_time)
    /\ get_available_quantity_at(cache[resource_id], start_time) >= required_quantity

check_resource_availability(cache, ledger, resource_id, start_time, end_time, required_quantity) ==
    /\ resource_id \in DOMAIN cache
    /\ is_available_at(cache[resource_id], start_time)
    /\ get_available_quantity_at(cache[resource_id], start_time) >= required_quantity
    /\ LET existing_allocations ==
               _get_allocations_in_period(ledger, resource_id, start_time, end_time)
           allocated_quantity ==
               SumQuantities(SelectSeq(existing_allocations,
                   LAMBDA alloc : _time_periods_overlap(start_time, end_time,
                                      alloc.start_time, alloc.end_time)))
       IN  get_available_quantity_at(cache[resource_id], start_time)
               >= allocated_quantity + required_quantity

ResourceConflict(conflicting_resources) ==
    [type |-> "ResourceConflictError", code |-> "RESOURCE_CONFLICT",
     violated_constraints |-> {}, conflicting_resources |-> conflicting_resources]

\* allocate_resource: the exception it raises or the allocation it returns,
\* and the ledger it leaves
allocate_resource(cache, ledger, resource_id, task_id, start_time, end_time, quantity) ==
    IF start_time >= end_time \/ quantity <= 0
    THEN [raised |-> Some(ValidationError), returned |-> None, ledger |-> ledger]
    ELSE IF ~check_resource_availability(cache, ledger, resource_id, start_time,
                                         end_time, quantity)
    THEN [raised |-> Some(ResourceConflict({resource_id})), returned |-> None,
          ledger |-> ledger]
    ELSE LET resource == cache[resource_id]
             cost == IF resource.hourly_cost = None \/ resource.hourly_cost = {0}
                     THEN None
                     ELSE {h * (end_time - start_time) * quantity :
                               h \in resource.hourly_cost}
             allocation == ResourceAllocation(resource_id, task_id, quantity,
                                              start_time, end_time, cost)
         IN  [raised |-> None, returned |-> Some(allocation),
              ledger |-> [ledger EXCEPT ![resource_id] = Append(@, allocation)]]

\* release_resource: what it returns and the ledger it leaves; the first
\* allocation of the resource to the task is the one released
release_resource(ledger, resource_id, task_id, release_time) ==
    LET allocations == AllocationsOf(ledger, resource_id)
        found == {i \in DOMAIN allocations : allocations[i].allocated_to = task_id}
    IN  IF found = {} THEN [returned |-> FALSE, ledger |-> ledger]
        ELSE LET i == CHOOSE k \in found : \A j \in found : k <= j
             IN  [returned |-> TRUE,
                  ledger |-> [ledger EXCEPT ![resource_id][i] =
                      [@ EXCEPT !.status = "released",
                                !.end_time = IF @ <= release_time THEN @
                                             ELSE release_time]]]

(***************************************************************************)
(* The caches of resources and the calls made on the resource service.     *)
(***************************************************************************)
ResourceCaches ==
    {[r \in {"CRANE-1", "CRANE-2"} |->
          Resource(r, TRUE, "available", 1, Some("CRANE_GROUP_A"), <<>>, Some(2))],
     [r \in {"TEAM", "JIG-1"} |->
          IF r = "TEAM"
          THEN Resource(r, TRUE, "available", 2, None,
                        <<ResourceAvailability(1, 2, "maintenance")>>, None)
          ELSE Resource(r, FALSE, "available", 1, None, <<>>, None)]}

\* the ledger of a service that has allocated nothing
EmptyLedger(cache) == [r \in DOMAIN cache |-> <<>>]

\* the periods and quantities asked for: periods that overlap, periods that
\* touch, an empty period and a quantity of nothing
AllocationRequests ==
    {<<0, 2, 1>>, <<1, 3, 1>>, <<2, 3, 1>>, <<0, 2, 2>>, <<1, 1, 1>>, <<0, 2, 0>>}

TaskNames == {"T1", "T2"}

ReleaseTimes == {1}

(***************************************************************************)
(* validate_job_dependencies (utils/validators.py).  A job is its id and   *)
(* the list of its predecessors; an error is its wording and what it is    *)
(* about.                                                                  *)
(***************************************************************************)
ValueError == Exception("ValueError", "ValueError", {})

DependentJob(id, preds) == [job_id |-> id, predecessor_jobs |-> preds]

\* dependencies = {job.job_id: job.predecessor_jobs for job in jobs}
DependenciesOf(jobs, node) ==
    LET of == {i \in DOMAIN jobs : jobs[i].job_id = node}
    IN  IF of = {} THEN <<>>
        ELSE jobs[CHOOSE i \in of : \A j \in of : j <= i].predecessor_jobs

\* path[path.index(node):] + [node]
CyclePath(path, node) ==
    LET i == CHOOSE k \in DOMAIN path :
                 path[k] = node /\ \A j \in 1..(k - 1) : path[j] # node
    IN  Append(SubSeq(path, i, Len(path)), node)

RECURSIVE validators_has_cycle(_, _, _, _)
RECURSIVE VisitPredecessors(_, _, _, _)
\* has_cycle(node, path) of validators._check_circular_dependencies, on the
\* errors, visited and rec_stack it shares: whether it returns True, and
\* what it leaves; raised when path.index(node) finds no node in path
validators_has_cycle(jobs, node, path, st) ==
    IF node \in st.rec_stack
    THEN IF node \in Range(path)
         THEN [found |-> TRUE,
               st |-> [st EXCEPT !.errors =
                   Append(@, <<"Circular dependency detected", CyclePath(path, node)>>)]]
         ELSE [found |-> FALSE, st |-> [st EXCEPT !.raised = Some(ValueError)]]
    ELSE IF node \in st.visited THEN [found |-> FALSE, st |-> st]
    ELSE LET entered == [st EXCEPT !.visited = @ \cup {node},
                                   !.rec_stack = @ \cup {node}]
             seen == VisitPredecessors(jobs, DependenciesOf(jobs, node),
                                       Append(path, node), entered)
         IN  IF seen.found \/ seen.st.raised # None THEN seen
             ELSE [found |-> FALSE,
                   st |-> [seen.st EXCEPT !.rec_stack = @ \ {node}]]

\* for neighbor in dependencies.get(node, []): if has_cycle(...): return True
VisitPredecessors(jobs, todo, path, st) ==
    IF todo = <<>> THEN [found |-> FALSE, st |-> st]
    ELSE LET seen == validators_has_cycle(jobs, Head(todo), path, st)
         IN  IF seen.found \/ seen.st.raised # None THEN seen
             ELSE VisitPredecessors(jobs, Tail(todo), path, seen.st)

RECURSIVE StartFromEach(_, _, _)
\* for job_id in dependencies: if job_id not in visited: has_cycle(job_id, [])
StartFromEach(jobs, todo, st) ==
    IF todo = <<>> \/ st.raised # None THEN st
    ELSE IF Head(todo) \in st.visited THEN StartFromEach(jobs, Tail(todo), st)
    ELSE StartFromEach(jobs, Tail(todo),
                       validators_has_cycle(jobs, Head(todo), <<>>, st).st)

\* validators._check_circular_dependencies
validators_check_circular_dependencies(jobs) ==
    StartFromEach(jobs, [i \in DOMAIN jobs |-> jobs[i].job_id],
                  [errors |-> <<>>, visited |-> {}, rec_stack |-> {},
                   raised |-> None])

RECURSIVE DependencyErrors(_, _)
\* the errors of the first loop: predecessors that are no job of the list,
\* and jobs that depend on themselves
DependencyErrors(jobs, i) ==
    IF i > Len(jobs) THEN <<>>
    ELSE LET job == jobs[i]
             job_ids == {jobs[j].job_id : j \in DOMAIN jobs}
             missing == SelectSeq(job.predecessor_jobs, LAMBDA p : p \notin job_ids)
         IN  [k \in DOMAIN missing |-> <<"depends on non-existent job", job.job_id,
                                         missing[k]>>]
             \o (IF job.job_id \in Range(job.predecessor_jobs)
                 THEN << <<"cannot depend on itself", job.job_id>> >> ELSE <<>>)
             \o DependencyErrors(jobs, i + 1)

\* validate_job_dependencies: the exception that leaves it, or (is_valid,
\* errors)
validate_job_dependencies(jobs) ==
    LET errors == DependencyErrors(jobs, 1)
        cycles == validators_check_circular_dependencies(jobs)
    IN  IF Len(errors) > 0
        THEN [raised |-> None, is_valid |-> FALSE, errors |-> errors]
        ELSE IF cycles.raised # None
        THEN [raised |-> cycles.raised, is_valid |-> FALSE, errors |-> <<>>]
        ELSE [raised |-> None, is_valid |-> Len(cycles.errors) = 0,
              errors |-> cycles.errors]

(***************************************************************************)
(* The lists of jobs given to validate_job_dependencies: every order of    *)
(* distinct jobs, each with a list of predecessors other than itself.      *)
(***************************************************************************)
JobIds == {"J1", "J2", "J3"}

\* the lists without repetition of elements of S
RECURSIVE ListsOf(_)
ListsOf(S) ==
    {<<>>} \cup UNION {{<<x>> \o l : l \in ListsOf(S \ {x})} : x \in S}

PredecessorLists(id) == {l \in ListsOf(JobIds \ {id}) : Len(l) <= 2}

RECURSIVE JobListsOver(_)
JobListsOver(ids) ==
    IF ids = <<>> THEN {<<>>}
    ELSE {<<DependentJob(Head(ids), preds)>> \o rest :
              preds \in PredecessorLists(Head(ids)), rest \in JobListsOver(Tail(ids))}

JobLists == UNION {JobListsOver(ids) : ids \in ListsOf(JobIds)}

(***************************************************************************)
(* State.                                                                  *)
(***************************************************************************)
VARIABLES
    entry,      \* who drives the solver: "driver" (a direct caller, as in
                \* test_solver_basic_workflow), "service" (create_schedule)
                \* or "session" (a direct caller that makes its calls in
                \* any order and uses the driver again)
    pc,         \* the call the caller makes next
    plan,       \* the jobs, resources, preparation tasks and configs the
                \* caller holds
    drv,        \* the CP-SAT driver
    schedule,   \* what get_schedule returned: None or a Schedule
    raised,     \* the exception that is propagating: None or one exception
    request,    \* the request create_schedule was called with
    response,   \* the response create_schedule returned: None or one
    result,     \* the SolverResult solve returned to its caller: None or one
    calls,      \* the solve, get_schedule and clear calls made on the driver
                \* so far, each with the way it ended
    events,     \* the list of events apply_events was called with
    batch,      \* the Event objects apply_events has created, in order
    process_calls,  \* for each call of process_event: the schedule it was
                \* given and the statuses its event has had
    event_logs, \* the event service's log
    effects,    \* the accumulators of apply_events: affected tasks, delays,
                \* total delay
    applied,    \* the value apply_events returned: None or one
    gate_context,   \* the preparation task, materials and tools the gates
                \* are evaluated on
    gate_results,   \* for each call of check_all_gates: the context before,
                \* the results, the context after
    handover,   \* the last call of confirm_handover: None or its evidence,
                \* the task as it was and what was returned
    gate_calls, \* the number of calls made on the gate service and the task
    resource_cache,     \* the resources of the resource service, by id
    allocation_cache,   \* the ledger: the allocations of each resource
    resource_call,      \* the last call on the resource service: None or
                \* its arguments, the ledger before and what was returned
    dependent_jobs,     \* the list validate_job_dependencies is called with
    validation  \* what validate_job_dependencies returned: None or one

\* the variables of the scheduling side and of the event service
svars == <<plan, drv, schedule, request, response, result, calls>>
evars == <<events, batch, process_calls, event_logs, effects, applied>>
\* the variables of the gate service, the resource service and the validators
gvars == <<gate_context, gate_results, handover, gate_calls>>
rvars == <<resource_cache, allocation_cache, resource_call>>
dvars == <<dependent_jobs, validation>>
ovars == <<gvars, rvars, dvars>>

vars == <<entry, pc, plan, drv, schedule, raised, request, response, result,
          calls, events, batch, process_calls, event_logs, effects, applied,
          gate_context, gate_results, handover, gate_calls,
          resource_cache, allocation_cache, resource_call,
          dependent_jobs, validation>>

\* one entry of calls
Call(op, outcome) == [op |-> op, outcome |-> outcome]

\* the calls a session may make next: any of them, while it has made fewer
\* than MaxCalls
SessionCalls(d, made) ==
    IF Len(made) >= MaxCalls THEN {"done"}
    ELSE {"add_jobs", "solve", "get_schedule", "clear", "done"}

\* the call that follows: the next statement of the caller's code, or for a
\* session any call
After(next, d, made) ==
    IF entry = "session" THEN SessionCalls(d, made) ELSE {next}

Init ==
    /\ \/ /\ entry = "driver"
          /\ pc \in {"initialize", "add_jobs"}
          /\ plan \in DriverPlans
          /\ request = NoRequest
       \/ /\ entry = "service"
          /\ pc = "validate_request"
          /\ plan = EmptyPlan
          /\ request \in ServiceRequests
       \/ /\ entry = "session"
          /\ pc \in {"initialize", "solve", "get_schedule", "clear"}
          /\ plan \in SessionPlans
          /\ request = NoRequest
       \/ /\ entry = "events"
          /\ pc = "create_event"
          /\ plan = EmptyPlan
          /\ request = NoRequest
       \/ /\ entry = "gates"
          /\ pc = "gate_call"
          /\ plan = EmptyPlan
          /\ request = NoRequest
       \/ /\ entry = "resources"
          /\ pc = "resource_call"
          /\ plan = EmptyPlan
          /\ request = NoRequest
       \/ /\ entry = "validators"
          /\ pc = "validate_job_dependencies"
          /\ plan = EmptyPlan
          /\ request = NoRequest
    /\ gate_context \in IF entry = "gates" THEN GateContexts ELSE {NoContext}
    /\ gate_results = <<>>
    /\ handover = None
    /\ gate_calls = 0
    /\ resource_cache \in IF entry = "resources" THEN ResourceCaches ELSE {<<>>}
    /\ allocation_cache = EmptyLedger(resource_cache)
    /\ resource_call = None
    /\ dependent_jobs \in IF entry = "validators" THEN JobLists ELSE {<<>>}
    /\ validation = None
    /\ events \in IF entry = "events" THEN EventLists(MaxEvents) ELSE {<<>>}
    /\ batch = <<>>
    /\ process_calls = <<>>
    /\ event_logs = <<>>
    /\ effects = NoEffects
    /\ applied = None
    /\ drv = NewDriver
    /\ calls = <<>>
    /\ schedule = None
    /\ raised = None
    /\ response = None
    /\ result = None

(***************************************************************************)
(* The steps of create_schedule before and after the solver.               *)
(***************************************************************************)
ValidateRequest ==
    /\ pc = "validate_request"
    /\ raised' = _validate_request(request)
    /\ pc' = IF raised' = None THEN "parse_request_data" ELSE "respond"
    /\ UNCHANGED <<entry, plan, drv, schedule, request, response, result, calls>>
    /\ UNCHANGED evars
    /\ UNCHANGED ovars

ParseRequestData ==
    /\ pc = "parse_request_data"
    /\ LET parsed == _parse_request_data(request)
       IN  /\ raised' = parsed.raised
           /\ plan' = [plan EXCEPT
                         !.jobs = parsed.jobs,
                         !.resources = parsed.resources,
                         !.preparation_tasks = parsed.preparation_tasks,
                         !.constraints_config =
                             ServiceConstraintsConfig(request.config),
                         !.objective_config =
                             ServiceObjectiveConfig(request.config)]
    /\ pc' = IF raised' = None THEN "validate_business_rules" ELSE "respond"
    /\ UNCHANGED <<entry, drv, schedule, request, response, result, calls>>
    /\ UNCHANGED evars
    /\ UNCHANGED ovars

ValidateBusinessRules ==
    /\ pc = "validate_business_rules"
    /\ raised' = _validate_business_rules(plan.jobs, plan.resources,
                                          plan.preparation_tasks)
    /\ pc' = IF raised' = None THEN "initialize" ELSE "respond"
    /\ UNCHANGED <<entry, plan, drv, schedule, request, response, result, calls>>
    /\ UNCHANGED evars
    /\ UNCHANGED ovars

\* the return statements of create_schedule
Respond ==
    /\ pc = "respond"
    /\ response' =
          IF raised = None
          THEN Some(SchedulingResponse(
                        schedule, _generate_gate_status(plan.preparation_tasks),
                        _generate_preparation_tasks(
                            plan.preparation_tasks,
                            CHOOSE x \in schedule : TRUE),
                        None))
          ELSE Some(SchedulingResponse(
                        None, {}, {},
                        {error_info(e) : e \in raised}))
    /\ pc' = "done"
    /\ UNCHANGED <<entry, plan, drv, schedule, raised, request, result, calls>>
    /\ UNCHANGED evars
    /\ UNCHANGED ovars

(***************************************************************************)
(* The calls on the driver.  Both callers wrap them in try/finally         *)
(* solver.clear(), so a raise leads to clear.                              *)
(***************************************************************************)
Initialize ==
    /\ pc = "initialize"
    /\ drv' = initialize(drv)
    /\ pc' \in After("add_jobs", drv', calls)
    /\ UNCHANGED <<entry, plan, schedule, raised, request, response, result, calls>>
    /\ UNCHANGED evars
    /\ UNCHANGED ovars

\* the add_* and set_* calls raise SolverError before initialize
AddJobs ==
    /\ pc = "add_jobs"
    /\ drv' = IF drv.initialized THEN add_jobs(drv, plan.jobs) ELSE drv
    /\ raised' = IF drv.initialized THEN raised ELSE Some(SolverError)
    /\ pc' \in IF drv.initialized THEN {"add_resources"}
              ELSE After("clear", drv, calls)
    /\ UNCHANGED <<entry, plan, schedule, request, response, result, calls>>
    /\ UNCHANGED evars
    /\ UNCHANGED ovars

AddResources ==
    /\ pc = "add_resources"
    /\ drv' = IF drv.initialized THEN add_resources(drv, plan.resources) ELSE drv
    /\ raised' = IF drv.initialized THEN raised ELSE Some(SolverError)
    /\ pc' \in IF drv.initialized THEN {"add_preparation_tasks"}
              ELSE After("clear", drv, calls)
    /\ UNCHANGED <<entry, plan, schedule, request, response, result, calls>>
    /\ UNCHANGED evars
    /\ UNCHANGED ovars

AddPreparationTasks ==
    /\ pc = "add_preparation_tasks"
    /\ drv' = IF drv.initialized THEN add_preparation_tasks(drv, plan.preparation_tasks) ELSE drv
    /\ raised' = IF drv.initialized THEN raised ELSE Some(SolverError)
    /\ pc' \in IF drv.initialized THEN {"add_constraints"}
              ELSE After("clear", drv, calls)
    /\ UNCHANGED <<entry, plan, schedule, request, response, result, calls>>
    /\ UNCHANGED evars
    /\ UNCHANGED ovars

AddConstraints ==
    /\ pc = "add_constraints"
    /\ drv' = IF drv.initialized THEN add_constraints(drv, plan.constraints_config) ELSE drv
    /\ raised' = IF drv.initialized THEN raised ELSE Some(SolverError)
    /\ pc' \in IF drv.initialized THEN {"set_objective"}
              ELSE After("clear", drv, calls)
    /\ UNCHANGED <<entry, plan, schedule, request, response, result, calls>>
    /\ UNCHANGED evars
    /\ UNCHANGED ovars

SetObjective ==
    /\ pc = "set_objective"
    /\ drv' = IF drv.initialized THEN set_objective(drv, plan.objective_config) ELSE drv
    /\ raised' = IF drv.initialized THEN raised ELSE Some(SolverError)
    /\ pc' \in After(IF drv.initialized THEN "solve" ELSE "clear", drv', calls)
    /\ UNCHANGED <<entry, plan, schedule, request, response, result, calls>>
    /\ UNCHANGED evars
    /\ UNCHANGED ovars

\* the way a call of solve ended: the status of its result, or "raised"
SolveOutcome(o) ==
    IF o.raised # "" THEN "raised"
    ELSE (CHOOSE r \in o.result : TRUE).status

\* a solve whose raise leaves the caller without passing the finally clause
SolveWithoutFinally ==
    /\ pc = "solve"
    /\ \E o \in solve(drv) :
         /\ drv' = o.drv
         /\ result' = o.result
         /\ calls' = Append(calls, Call("solve", SolveOutcome(o)))
         /\ IF o.raised # ""
            THEN /\ raised' = Some(SolverError)
                 /\ pc' = IF entry = "service" THEN "respond" ELSE "done"
            ELSE IF entry = "service" /\ \E r \in o.result : ~is_successful(r)
            THEN raised' = Some(SolverError) /\ pc' \in After("clear", drv', calls')
            ELSE raised' = raised /\ pc' \in After("get_schedule", drv', calls')
    /\ UNCHANGED <<entry, plan, schedule, request, response>>
    /\ UNCHANGED evars
    /\ UNCHANGED ovars

Solve ==
    /\ pc = "solve"
    /\ \E o \in solve(drv) :
         /\ drv' = o.drv
         /\ result' = o.result
         /\ calls' = Append(calls, Call("solve", SolveOutcome(o)))
         /\ IF o.raised # ""
            THEN raised' = Some(SolverError) /\ pc' \in After("clear", drv', calls')
            ELSE IF entry = "service" /\ \E r \in o.result : ~is_successful(r)
            THEN raised' = Some(SolverError) /\ pc' \in After("clear", drv', calls')
            ELSE raised' = raised /\ pc' \in After("get_schedule", drv', calls')
    /\ UNCHANGED <<entry, plan, schedule, request, response>>
    /\ UNCHANGED evars
    /\ UNCHANGED ovars

GetSchedule ==
    /\ pc = "get_schedule"
    /\ LET got == get_schedule(drv)
       IN  /\ schedule' = got.schedule
           /\ raised' = IF got.raised # "" \/ (entry = "service" /\ got.schedule = None)
                        THEN Some(SolverError)
                        ELSE raised
           /\ calls' = Append(calls,
                              Call("get_schedule",
                                   IF got.raised # "" THEN "raised"
                                   ELSE IF got.schedule = None THEN "nothing"
                                   ELSE "schedule"))
    /\ pc' \in After("clear", drv, calls')
    /\ UNCHANGED <<entry, plan, drv, request, response, result>>
    /\ UNCHANGED evars
    /\ UNCHANGED ovars

Clear ==
    /\ pc = "clear"
    /\ drv' = clear(drv)
    /\ calls' = Append(calls, Call("clear", "cleared"))
    /\ pc' \in After(IF entry = "service" THEN "respond" ELSE "done", drv', calls')
              \cup (IF entry = "session" /\ Len(calls') < MaxCalls
                    THEN {"new_plan"} ELSE {})
    /\ UNCHANGED <<entry, plan, schedule, raised, request, response, result>>
    /\ UNCHANGED evars
    /\ UNCHANGED ovars

\* a session that has just cleared the driver puts the last schedule aside
\* and takes up another plan
NewPlan ==
    /\ pc = "new_plan"
    /\ plan' \in SessionPlans \ {plan}
    /\ schedule' = None
    /\ raised' = None
    /\ result' = None
    /\ pc' = "add_jobs"
    /\ UNCHANGED <<entry, drv, request, response, calls>>
    /\ UNCHANGED evars
    /\ UNCHANGED ovars

(***************************************************************************)
(* The steps of apply_events.  An exception that leaves the loop is caught *)
(* by its except clause, which raises EventProcessingError to the caller.  *)
(***************************************************************************)
\* the head of the loop: EventCreate(**event_data) and create_event, or the
\* return after the last event
CreateEvent ==
    /\ pc = "create_event"
    /\ IF Len(batch) = Len(events)
       THEN /\ applied' = Some(ApplyResult(effects))
            /\ pc' = "done"
            /\ UNCHANGED <<raised, batch, process_calls>>
       ELSE LET event_data == events[Len(batch) + 1]
            IN  IF event_data.well_formed
                THEN /\ batch' = Append(batch, Event(Len(batch) + 1, event_data))
                     /\ process_calls' =
                            Append(process_calls,
                                   [current_schedule |-> DefaultCurrentSchedule,
                                    statuses |-> <<"pending">>])
                     /\ pc' = "process_event"
                     /\ UNCHANGED <<raised, applied>>
                ELSE /\ raised' = Some(EventProcessingError)
                     /\ pc' = "done"
                     /\ UNCHANGED <<batch, process_calls, applied>>
    /\ UNCHANGED <<entry, events, event_logs, effects>>
    /\ UNCHANGED svars
    /\ UNCHANGED ovars

\* process_event up to the choice of the processor: _validate_event, then
\* mark_processing and the log entry, or mark_failed in the except clause
ValidateEvent ==
    /\ pc = "process_event"
    /\ LET k == Len(batch)
           event == batch[k]
           error == _validate_event(event)
           after == IF error = None THEN mark_processing(event)
                    ELSE mark_failed(event, CHOOSE m \in error : TRUE)
       IN  /\ batch' = [batch EXCEPT ![k] = after]
           /\ process_calls' =
                  [process_calls EXCEPT ![k].statuses = Append(@, after.status)]
           /\ event_logs' =
                  Append(event_logs,
                         IF error = None
                         THEN EventLog(event, "INFO", "Event processing started")
                         ELSE EventLog(event, "ERROR", "Event processing failed"))
           /\ raised' = IF error = None THEN raised ELSE Some(EventProcessingError)
           /\ pc' = IF error = None THEN "process" ELSE "done"
    /\ UNCHANGED <<entry, events, effects, applied>>
    /\ UNCHANGED svars
    /\ UNCHANGED ovars

\* the rest of process_event: the processor is looked up and run, then
\* mark_completed and the log entry, or mark_failed in the except clause
ProcessEvent ==
    /\ pc = "process"
    /\ LET k == Len(batch)
           event == batch[k]
           fails == \/ event.event_type \notin RegisteredProcessors
                    \/ ~PayloadDecodes(event)
           after ==
               IF fails
               THEN mark_failed(event,
                                IF event.event_type \notin RegisteredProcessors
                                THEN "No processor found" ELSE "Invalid payload")
               ELSE mark_completed(
                        event,
                        ProcessorResult(event, process_calls[k].current_schedule))
       IN  /\ batch' = [batch EXCEPT ![k] = after]
           /\ process_calls' =
                  [process_calls EXCEPT ![k].statuses = Append(@, after.status)]
           /\ event_logs' =
                  Append(event_logs,
                         IF fails
                         THEN EventLog(event, "ERROR", "Event processing failed")
                         ELSE EventLog(event, "INFO", "Event processing completed"))
           /\ raised' = IF fails THEN Some(EventProcessingError) ELSE raised
           /\ pc' = IF fails THEN "done" ELSE "merge"
    /\ UNCHANGED <<entry, events, effects, applied>>
    /\ UNCHANGED svars
    /\ UNCHANGED ovars

\* the merge of the event's result into the accumulators.  The Event model
\* has use_enum_values set, so event.event_type is a plain string and
\* event.event_type.value, evaluated for a delay above zero, raises
\* AttributeError after the total has been updated.
MergeResult ==
    /\ pc = "merge"
    /\ LET event == batch[Len(batch)]
           event_result == CHOOSE r \in event.processing_result : TRUE
           affected == IF "affected_tasks" \in DOMAIN event_result
                       THEN event_result.affected_tasks ELSE {}
           delay_hours == IF "delay_hours" \in DOMAIN event_result
                          THEN event_result.delay_hours ELSE 0
       IN  /\ effects' = [effects EXCEPT
                            !.affected_tasks = @ \cup affected,
                            !.total_delay_hours = @ + delay_hours]
           /\ raised' = IF delay_hours > 0 THEN Some(EventProcessingError)
                        ELSE raised
           /\ pc' = IF delay_hours > 0 THEN "done" ELSE "create_event"
    /\ UNCHANGED <<entry, events, batch, process_calls, event_logs, applied>>
    /\ UNCHANGED svars
    /\ UNCHANGED ovars

(***************************************************************************)
(* The calls on the gate service and on the task's gate.                   *)
(***************************************************************************)
\* the preparation task of the context
TheTask == gate_context.preparation_tasks[1]

GateCall ==
    /\ entry = "gates"
    /\ pc = "gate_call"
    /\ gate_calls < MaxGateCalls
    /\ gate_calls' = gate_calls + 1
    /\ UNCHANGED <<entry, pc, raised>>
    /\ UNCHANGED <<svars, evars, rvars, dvars>>

\* GateService.check_all_gates on the context as it is
CheckAllGates ==
    /\ GateCall
    /\ LET out == check_all_gates(gate_context)
       IN  /\ gate_results' = Append(gate_results,
                                     [before |-> gate_context,
                                      results |-> out.results,
                                      after |-> out.context])
           /\ gate_context' = out.context
    /\ UNCHANGED handover

\* GateService.confirm_handover for the task
ConfirmHandover ==
    /\ GateCall
    /\ \E evidence \in EvidenceDicts :
           handover' = Some([evidence |-> evidence,
                             before |-> TheTask,
                             returned |-> confirm_handover(TheTask.prep_id, evidence),
                             raised |-> None,      \* every exception is caught
                             after |-> TheTask])   \* no task, no gate is written
    /\ UNCHANGED <<gate_context, gate_results>>

\* Gate.check_condition on the gate of the task
CheckCondition ==
    /\ GateCall
    /\ TheTask.gate # None
    /\ \E condition \in GateConditions, passed \in BOOLEAN :
           gate_context' =
               [gate_context EXCEPT !.preparation_tasks[1].gate =
                    {check_condition(g, condition, passed) : g \in @}]
    /\ UNCHANGED <<gate_results, handover>>

\* PreparationTask.submit_evidence
SubmitEvidence ==
    /\ GateCall
    /\ \E evidence \in SubmittedEvidence :
           gate_context' = [gate_context EXCEPT !.preparation_tasks[1] =
                                submit_evidence(@, evidence)]
    /\ UNCHANGED <<gate_results, handover>>

\* PreparationTask.complete_task
CompleteTask ==
    /\ GateCall
    /\ gate_context' = [gate_context EXCEPT !.preparation_tasks[1] =
                            complete_task(@)]
    /\ UNCHANGED <<gate_results, handover>>

(***************************************************************************)
(* The calls on the resource service.                                      *)
(***************************************************************************)
\* the allocations of the ledger, of every resource
LedgerSize ==
    SumOf([r \in DOMAIN allocation_cache |-> Len(allocation_cache[r])],
          DOMAIN allocation_cache)

AllocateResource ==
    /\ entry = "resources"
    /\ pc = "resource_call"
    /\ LedgerSize < MaxAllocations
    /\ \E resource_id \in DOMAIN resource_cache \cup {"UNKNOWN"},
          task_id \in TaskNames, asked \in AllocationRequests :
           LET out == allocate_resource(resource_cache, allocation_cache,
                                        resource_id, task_id,
                                        asked[1], asked[2], asked[3])
           IN  /\ allocation_cache' = out.ledger
               /\ raised' = out.raised
               /\ resource_call' =
                      Some([op |-> "allocate_resource",
                            resource_id |-> resource_id, task_id |-> task_id,
                            start_time |-> asked[1], end_time |-> asked[2],
                            quantity |-> asked[3],
                            before |-> allocation_cache,
                            returned |-> out.returned])
    /\ UNCHANGED <<entry, pc, resource_cache>>
    /\ UNCHANGED <<svars, evars, gvars, dvars>>

ReleaseResource ==
    /\ entry = "resources"
    /\ pc = "resource_call"
    /\ \E resource_id \in DOMAIN resource_cache \cup {"UNKNOWN"},
          task_id \in TaskNames, release_time \in ReleaseTimes :
           LET out == release_resource(allocation_cache, resource_id, task_id,
                                       release_time)
           IN  /\ allocation_cache' = out.ledger
               /\ raised' = None
               /\ resource_call' =
                      Some([op |-> "release_resource",
                            resource_id |-> resource_id, task_id |-> task_id,
                            release_time |-> release_time,
                            before |-> allocation_cache,
                            returned |-> out.returned])
    /\ UNCHANGED <<entry, pc, resource_cache>>
    /\ UNCHANGED <<svars, evars, gvars, dvars>>

(***************************************************************************)
(* The call of validate_job_dependencies.                                  *)
(***************************************************************************)
ValidateJobDependencies ==
    /\ entry = "validators"
    /\ pc = "validate_job_dependencies"
    /\ LET out == validate_job_dependencies(dependent_jobs)
       IN  /\ validation' = IF out.raised # None THEN None
                             ELSE Some([is_valid |-> out.is_valid,
                                        errors |-> out.errors])
           /\ raised' = out.raised
    /\ pc' = "done"
    /\ UNCHANGED <<entry, dependent_jobs>>
    /\ UNCHANGED <<svars, evars, gvars, rvars>>

Next ==
    \/ ValidateRequest
    \/ ParseRequestData
    \/ ValidateBusinessRules
    \/ Initialize
    \/ AddJobs
    \/ AddResources
    \/ AddPreparationTasks
    \/ AddConstraints
    \/ SetObjective
    \/ Solve
    \/ GetSchedule
    \/ Clear
    \/ NewPlan
    \/ Respond
    \/ CreateEvent
    \/ ValidateEvent
    \/ ProcessEvent
    \/ MergeResult
    \/ CheckAllGates
    \/ ConfirmHandover
    \/ CheckCondition
    \/ SubmitEvidence
    \/ CompleteTask
    \/ AllocateResource
    \/ ReleaseResource
    \/ ValidateJobDependencies

Spec == Init /\ [][Next]_vars

(***************************************************************************)
(* Properties.                                                             *)
(***************************************************************************)
\* the schedules handed back: by get_schedule to its caller and by
\* create_schedule in its response
Returned == schedule \cup UNION {r.schedule : r \in response}

\* pred's interval ends no later than succ's interval starts
EdgeRespected(sch, pred, succ) ==
    \E ip \in sch.task_intervals : \E is \in sch.task_intervals :
        /\ ip.task_id = pred
        /\ is.task_id = succ
        /\ ip.end_time <= is.start_time

\* C1: in every returned schedule, for every dependency edge (pred, succ)
\* among jobs and preparation tasks (a job's predecessor_jobs, a
\* preparation task's dependencies), pred ends no later than succ starts.
C1_PrecedenceRespected ==
    \A sch \in Returned :
        /\ \A j \in plan.jobs : \A pred \in j.predecessor_jobs :
               EdgeRespected(sch, pred, j.job_id)
        /\ \A t \in plan.preparation_tasks : \A dep \in t.dependencies :
               EdgeRespected(sch, dep, t.prep_id)

\* a schedule is returned for a plan with a job that follows a job and a
\* preparation task that follows a job
C1_Witness ==
    /\ Returned # {}
    /\ \E j \in plan.jobs : \E pred \in j.predecessor_jobs :
           \E j2 \in plan.jobs : j2.job_id = pred
    /\ \E t \in plan.preparation_tasks : t.dependencies # {}

\* the intervals of two tasks do not overlap: one ends at or before the
\* other starts
Disjoint(a, b) == a.end_time <= b.start_time \/ b.end_time <= a.start_time

ExclusiveResources == {r \in plan.resources : r.kind = "physical" /\ r.is_exclusive}

\* C2: when two independent jobs each require the same exclusive physical
\* resource, every returned schedule places their intervals so that they do
\* not overlap, whatever people the plan has.
C2_ExclusiveJobsDisjoint ==
    \A sch \in Returned :
        \A j1 \in plan.jobs : \A j2 \in plan.jobs :
            (/\ j1.job_id # j2.job_id
             /\ j1.job_id \notin j2.predecessor_jobs
             /\ j2.job_id \notin j1.predecessor_jobs
             /\ \E r \in ExclusiveResources :
                    /\ has_resource_requirement(j1, r.resource_id)
                    /\ has_resource_requirement(j2, r.resource_id))
            => \A i1 \in sch.task_intervals : \A i2 \in sch.task_intervals :
                   (i1.task_id = j1.job_id /\ i2.task_id = j2.job_id)
                   => Disjoint(i1, i2)

\* C3: in every returned schedule, any two allocations of an exclusive
\* resource have disjoint periods; one ending exactly when the other starts
\* counts as disjoint.
C3_ExclusiveAllocationsDisjoint ==
    \A sch \in Returned : \A r \in ExclusiveResources :
        \A a1 \in sch.resource_allocations : \A a2 \in sch.resource_allocations :
            (/\ a1.resource_id = r.resource_id
             /\ a2.resource_id = r.resource_id
             /\ a1 # a2)
            => Disjoint(a1, a2)

\* a returned schedule allocates an exclusive resource to two tasks, the
\* second starting exactly when the first ends
C3_Witness ==
    \E sch \in Returned : \E r \in ExclusiveResources :
        \E a1 \in sch.resource_allocations : \E a2 \in sch.resource_allocations :
            /\ a1.resource_id = r.resource_id
            /\ a2.resource_id = r.resource_id
            /\ a1.allocated_to # a2.allocated_to
            /\ a1.end_time = a2.start_time

\* the quantity of resource rid the task of an allocation requires
RequiredQuantity(allocation, rid) ==
    SumOf([j \in {x \in plan.jobs : x.job_id = allocation.allocated_to} |->
              get_resource_quantity(j, rid)],
          {x \in plan.jobs : x.job_id = allocation.allocated_to})
    + SumOf([t \in {x \in plan.preparation_tasks
                     : x.prep_id = allocation.allocated_to} |->
              SumOf([q \in {y \in t.required_assets : y.asset_id = rid} |->
                        q.quantity],
                    {y \in t.required_assets : y.asset_id = rid})],
            {x \in plan.preparation_tasks : x.prep_id = allocation.allocated_to})

\* the load on resource rid at a time point, in seconds after the plan's start
LoadAt(sch, rid, time) ==
    LET active == {a \in sch.resource_allocations :
                     /\ a.resource_id = rid
                     /\ a.start_time <= time
                     /\ time < a.end_time}
    IN  SumOf([a \in active |-> RequiredQuantity(a, rid)], active)

\* C4: for every non-exclusive resource with total_quantity of 2 or more, in
\* every returned schedule and at every time point, the required quantities
\* of the tasks assigned to it that are active add up to at most
\* total_quantity.
C4_CumulativeCapacity ==
    \A sch \in Returned :
        \A r \in {x \in plan.resources : ~x.is_exclusive /\ x.total_quantity >= 2} :
            \A a \in sch.resource_allocations :
                LoadAt(sch, r.resource_id, a.start_time) <= r.total_quantity

\* C5: every job of every returned schedule has at least one human resource
\* assigned to it, also when the plan has only physical resources.
C5_EveryJobStaffed ==
    \A sch \in Returned : \A j \in plan.jobs :
        \E a \in sch.resource_allocations : \E h \in HumanResources(plan.resources) :
            a.allocated_to = j.job_id /\ a.resource_id = h.resource_id

\* C6: in every returned schedule, the people assigned to a job hold,
\* between them, every qualification the job requires.
C6_QualificationsCovered ==
    \A sch \in Returned : \A j \in plan.jobs : \A q \in j.required_qualifications :
        \E a \in sch.resource_allocations : \E h \in HumanResources(plan.resources) :
            /\ a.allocated_to = j.job_id
            /\ a.resource_id = h.resource_id
            /\ has_qualification(h, q)

\* a returned schedule staffs a job that requires two qualifications with
\* two people who hold one each
C6_Witness ==
    \E sch \in Returned : \E j \in plan.jobs :
        /\ Cardinality(j.required_qualifications) = 2
        /\ \A h \in HumanResources(plan.resources) :
               ~(j.required_qualifications \subseteq h.qualifications)
        /\ \E a \in sch.resource_allocations : a.allocated_to = j.job_id

\* C7: every gate preparation task of a work package finishes, in every
\* returned schedule, no later than the first job of that work package
\* starts.
C7_GateBeforeWorkPackage ==
    \A sch \in Returned :
        \A t \in {x \in plan.preparation_tasks : x.is_gate} :
            \A j \in {x \in plan.jobs : x.work_card_id = t.work_package_id} :
                EdgeRespected(sch, t.prep_id, j.job_id)

\* C8: a job with an earliest_start starts at or after it and a job with a
\* latest_finish ends at or before it, as exact datetimes.
C8_WindowsRespected ==
    \A sch \in Returned : \A j \in plan.jobs :
        \A i \in {x \in sch.task_intervals : x.task_id = j.job_id} :
            /\ \A es \in j.earliest_start : i.start_time >= es
            /\ \A lf \in j.latest_finish : i.end_time <= lf

\* C9: every response of create_schedule carries an error or a schedule,
\* never both and never neither; when the solver ended with a status other
\* than optimal or feasible, the response carries a SolverError and no
\* schedule, gates or preparation tasks.
C9_ErrorXorSchedule ==
    \A r \in response :
        /\ (r.error = None) # (r.schedule = None)
        /\ (\E x \in result : ~is_successful(x))
           => /\ r.error # None
              /\ \A e \in r.error : e.code = SolverError.type
              /\ r.schedule = None
              /\ r.gates = {}
              /\ r.preparation_tasks = {}

\* a response is given after the solver ran out of time
C9_Witness ==
    \E r \in response : \E x \in result : x.status = "unknown" /\ r.error # None

\* the dependency edges of the request: <<task, predecessor>>
RequestEdges ==
    UNION {UNION {{<<job_data.job_id, pred>> : pred \in job_data.predecessor_jobs}
                  : job_data \in wp.job_details}
           : wp \in request.work_packages}

RECURSIVE TransitiveClosure(_)
TransitiveClosure(edges) ==
    LET more == edges \cup {<<q[1][1], q[2][2]>>
                            : q \in {x \in edges \X edges : x[1][2] = x[2][1]}}
    IN  IF more = edges THEN edges ELSE TransitiveClosure(more)

RequestHasCycle == \E e \in TransitiveClosure(RequestEdges) : e[1] = e[2]

\* C10: a request whose dependency graph has a cycle, of any length, gets a
\* CONSTRAINT_VIOLATION error that names no_circular_dependencies and no
\* schedule; on an acyclic graph the cycle check raises nothing.
C10_CycleRejected ==
    \A r \in response :
        /\ RequestHasCycle
           => /\ r.schedule = None
              /\ \E e \in r.error :
                   /\ e.code = ConstraintViolationError({}).code
                   /\ "no_circular_dependencies" \in e.violated_constraints
        /\ ~RequestHasCycle
           => \A e \in r.error : e.code # ConstraintViolationError({}).type

\* a request with a job that is its own predecessor is answered with a
\* ValidationError that names no violated constraint
C10_SelfLoopAnswered ==
    \E r \in response :
        /\ \E e \in RequestEdges : e[1] = e[2]
        /\ \E e \in r.error :
             e.code = PydanticValidationError.type /\ e.violated_constraints = {}

\* a request with a cycle of two jobs is answered with the name of the
\* exception class as its code
C10_TwoCycleAnswered ==
    \E r \in response :
        /\ RequestHasCycle
        /\ \A e \in RequestEdges : e[1] # e[2]
        /\ \E e \in r.error :
             /\ e.code = ConstraintViolationError({}).type
             /\ "no_circular_dependencies" \in e.violated_constraints

\* a driver that has been initialized and given the plan p
Loaded(p) ==
    add_preparation_tasks(
        add_resources(add_jobs(initialize(NewDriver), p.jobs), p.resources),
        p.preparation_tasks)

\* the caller has initialized the driver and has called solve
SolveEnded ==
    /\ drv.initialized
    /\ \E i \in DOMAIN calls : calls[i].op = "solve"

\* the exceptions the caller of the plan's run sees: the one that left the
\* driver, and for create_schedule the error of the response
ErrorCodes == {e.code : e \in raised} \cup {e.code : e \in UNION {r.error : r \in response}}

\* C11: a plan in which some job requires a qualification that no human
\* holds is rejected with a ConstraintViolationError, code
\* CONSTRAINT_VIOLATION, before the CP solver is invoked: no solver result
\* and no schedule exist.
C11_QualificationRejected ==
    (/\ SolveEnded
     /\ validate_input(Loaded(plan))
     /\ QualificationMissing(plan.jobs, plan.resources))
    => /\ raised # None
       /\ \A e \in raised : e.type = ConstraintViolationError({}).type
       /\ ErrorCodes = {ConstraintViolationError({}).code}
       /\ result = None
       /\ Returned = {}

\* C12: a plan in which a job or a preparation task names a predecessor id
\* that is neither a job nor a preparation task is rejected with a
\* ValidationError, code VALIDATION_ERROR, and no schedule is returned.
C12_UnknownPredecessorRejected ==
    (/\ SolveEnded
     /\ plan.resources # {}
     /\ \E id \in UNION ({j.predecessor_jobs : j \in plan.jobs}
                         \cup {t.dependencies : t \in plan.preparation_tasks}) :
            id \notin TaskIds(plan.jobs, plan.preparation_tasks))
    => /\ raised # None
       /\ \A e \in raised : e.type = ValidationError.type
       /\ ErrorCodes = {ValidationError.code}
       /\ Returned = {}

\* the stable error codes of core/exceptions.py
StableErrorCodes ==
    {"VALIDATION_ERROR", "SOLVER_ERROR", "RESOURCE_CONFLICT",
     "CONSTRAINT_VIOLATION", "EVENT_PROCESSING_ERROR", "GATE_ERROR",
     "CONFIGURATION_ERROR"}

\* C13: in every response of create_schedule that carries an error, the
\* error's code is one of the stable error codes.
C13_StableErrorCode ==
    \A r \in response : \A e \in r.error : e.code \in StableErrorCodes

\* the request is one that _validate_request or _validate_business_rules is
\* to refuse: no work packages, no resources, a planning window that is not
\* positive, a template that is not a PriorityTemplate, two exclusive assets
\* of one exclusive group, a dependency cycle
RequestInvalid ==
    \/ request.work_packages = {}
    \/ request.assets = {} /\ request.humans = {}
    \/ \E w \in request.config.prep_window : w <= 0
    \/ \E t \in request.config.objective_template : t \notin PriorityTemplates
    \/ \E a1 \in request.assets : \E a2 \in request.assets :
          /\ a1 # a2
          /\ a1.is_critical /\ a2.is_critical
          /\ a1.exclusive_group # None
          /\ a1.exclusive_group = a2.exclusive_group
    \/ RequestHasCycle

\* C14: while create_schedule handles a request that fails the request
\* validation or the business rules, no solver is ever created and solve is
\* never invoked: the driver stays as constructed, no solver result exists,
\* and the response carries the error.
C14_NoSolverOnValidationFailure ==
    (entry = "service" /\ RequestInvalid)
    => /\ drv = NewDriver
       /\ result = None
       /\ \A r \in response : r.error # None /\ r.schedule = None

\* the response to a request with a dependency cycle of two jobs has been
\* returned
C14_Witness ==
    /\ RequestHasCycle
    /\ \A e \in RequestEdges : e[1] # e[2]
    /\ \E r \in response : r.error # None
    /\ pc = "done"

\* C15: when create_schedule is about to return and when it has returned,
\* the solver it created has been cleared, whether the calls on it succeeded
\* or raised: it holds no jobs, resources or model variables.
C15_ClearedBeforeResponse ==
    (entry = "service" /\ pc \in {"respond", "done"}) => HoldsNothing(drv)

\* create_schedule has returned an error after solve raised on a solver that
\* had been given jobs and resources
C15_Witness ==
    /\ entry = "service"
    /\ drv.initialized
    /\ plan.jobs # {}
    /\ result = None
    /\ \E r \in response : r.error # None

\* the solve or clear call made last before the call at position i: None or
\* one entry of calls
LastSolveOrClear(i) ==
    LET before == {j \in 1..(i - 1) : calls[j].op \in {"solve", "clear"}}
    IN  IF before = {} THEN None
        ELSE Some(calls[CHOOSE j \in before : \A k \in before : k <= j])

\* C16: whatever calls were made on the driver, a call of get_schedule
\* returned a schedule only if the solve or clear call made last before it
\* was a solve that ended optimal or feasible; before any solve, after a
\* solve that raised or ended with another status, and after a clear it
\* returned nothing.
C16_ScheduleOnlyAfterSuccessfulSolve ==
    \A i \in DOMAIN calls :
        calls[i].op = "get_schedule"
        => LET solved == \E c \in LastSolveOrClear(i) :
                             /\ c.op = "solve"
                             /\ c.outcome \in {"optimal", "feasible"}
           IN  /\ calls[i].outcome = "schedule" => solved
               /\ ~solved => calls[i].outcome = "nothing"

\* get_schedule returned a schedule after an optimal solve and nothing after
\* the clear that followed
C16_Witness ==
    /\ Len(calls) = 4
    /\ calls[1] = Call("solve", "optimal")
    /\ calls[2] = Call("get_schedule", "schedule")
    /\ calls[3] = Call("clear", "cleared")
    /\ calls[4] = Call("get_schedule", "nothing")

\* the ids of the tasks that the driver's data, its model, its last result
\* and the last schedule handed back are about
HeldTaskIds ==
    TaskIds(drv.jobs, drv.preparation_tasks)
    \cup UNION {b.variables.tasks : b \in drv.model}
    \cup UNION {v.tasks : v \in drv.variables}
    \cup UNION {UNION {DOMAIN sol.start : sol \in r.solution} : r \in drv.last_result}

\* C17: right after clear the driver holds no jobs, resources, preparation
\* tasks, configuration, model variables, posted constraints or last result,
\* and it is still initialized if it was; whatever the driver holds later
\* stems from the plan taken up after the clear, and a model built then has
\* no constraint of an earlier build.
C17_ClearedDriverStartsAfresh ==
    /\ (/\ calls # <<>>
        /\ calls[Len(calls)].op = "clear"
        /\ \/ pc = "new_plan"
           \/ entry # "session" /\ pc \in {"respond", "done"})
       => /\ HoldsNothing(drv)
          /\ (\E i \in DOMAIN calls :
                 calls[i].op = "solve" /\ calls[i].outcome # "raised")
             => drv.initialized
    /\ HeldTaskIds \subseteq TaskIds(plan.jobs, plan.preparation_tasks)
    /\ drv.resources \subseteq plan.resources
    /\ \A b \in drv.model :
           b.variables.tasks = TaskIds(plan.jobs, plan.preparation_tasks)

\* after a solve that ended infeasible and a clear, the driver was given
\* another plan, solved it to optimality and returned its schedule
C17_Witness ==
    /\ Len(calls) = 4
    /\ calls[1] = Call("solve", "infeasible")
    /\ calls[2] = Call("clear", "cleared")
    /\ calls[3] = Call("solve", "optimal")
    /\ calls[4] = Call("get_schedule", "schedule")
    /\ HeldTaskIds = TaskIds(plan.jobs, plan.preparation_tasks)

\* apply_events has raised while the event created last was failing
FailedInProcessEvent ==
    /\ entry = "events"
    /\ pc = "done"
    /\ raised # None
    /\ batch # <<>>
    /\ batch[Len(batch)].status = "failed"

\* what the caller of apply_events gets holds the result of the i-th event:
\* its affected tasks, and its delay if it has one
ResultReturned(i) ==
    \E a \in applied : \A r \in batch[i].processing_result :
        /\ "affected_tasks" \in DOMAIN r
           => r.affected_tasks \subseteq a.diff.affected_tasks
        /\ ("delay_hours" \in DOMAIN r /\ r.delay_hours > 0)
           => \E d \in DOMAIN a.diff.delays : a.diff.delays[d].event_id = i

\* C18: when the processing of event k of an apply_events batch fails, the
\* events before k are completed and their results are part of what the
\* caller gets, event k is failed, and no event after k has been created or
\* processed.
C18_EarlierEventsRemainApplied ==
    FailedInProcessEvent
    => LET k == Len(batch)
       IN  /\ batch[k].status = "failed"
           /\ \A i \in 1..(k - 1) :
                  /\ batch[i].status = "completed"
                  /\ batch[i].processing_result # None
                  /\ ResultReturned(i)
           /\ Len(process_calls) = k

\* an earlier event of the call, at a position before k, ended with a
\* result that asks for a replan
ReplanAskedBefore(k) ==
    \E i \in 1..(k - 1) : \E r \in batch[i].processing_result : r.requires_replan

\* C19: within one apply_events call the events are processed in the order
\* of the list, each reaching completed or failed before the next one is
\* created, and the processing of an event that follows one with effects
\* on the plan is given the schedule those effects were made on.
C19_InOrderObservingEarlier ==
    /\ \A i \in DOMAIN batch :
           /\ batch[i].event_id = i
           /\ batch[i].payload = events[i].payload
           /\ i < Len(batch) => batch[i].status \in {"completed", "failed"}
    /\ \A k \in DOMAIN process_calls :
           ReplanAskedBefore(k) => process_calls[k].current_schedule # None

\* the ways the status of an event may have gone when every event passes
\* through processing
StatusPaths ==
    {<<"pending">>, <<"pending", "processing">>,
     <<"pending", "processing", "completed">>,
     <<"pending", "processing", "failed">>}

\* what holds of the k-th event whatever path its status takes: its status
\* is the last of the path, completed comes with a stored result and failed
\* with a stored message, and once process_event has returned or raised the
\* event is completed or failed
StatusSettled(k) ==
    /\ batch[k].status = process_calls[k].statuses[Len(process_calls[k].statuses)]
    /\ batch[k].status = "completed" => batch[k].processing_result # None
    /\ batch[k].status = "failed" => batch[k].error_message # None
    /\ (k < Len(batch) \/ pc \notin {"process_event", "process"})
       => batch[k].status \in {"completed", "failed"}

\* C20: the status of every event handed to process_event goes from pending
\* to processing and then to completed, with the result stored, or to
\* failed, with the message stored; no event is left in processing once
\* process_event has returned or raised, and none is completed without
\* having been processing.
C20_ThroughProcessing ==
    \A k \in DOMAIN batch :
        /\ process_calls[k].statuses \in StatusPaths
        /\ StatusSettled(k)

\* C20, amended: an event that passes _validate_event goes from pending to
\* processing and then to completed or failed; an event that fails it
\* (expired, not yet effective, empty scope) goes from pending straight to
\* failed; the rest of C20 holds as stated.
C20_ThroughProcessingUnlessRejected ==
    \A k \in DOMAIN batch :
        /\ process_calls[k].statuses \in StatusPaths \cup {<<"pending", "failed">>}
        /\ process_calls[k].statuses = <<"pending", "failed">>
           => _validate_event(Event(k, events[k])) # None
        /\ _validate_event(Event(k, events[k])) # None
           => process_calls[k].statuses \in {<<"pending">>, <<"pending", "failed">>}
        /\ StatusSettled(k)

\* apply_events has ended on an expired event that went from pending to
\* failed, after an event that went through processing to completed
C20_Witness ==
    /\ entry = "events"
    /\ pc = "done"
    /\ Len(batch) = 2
    /\ process_calls[1].statuses = <<"pending", "processing", "completed">>
    /\ process_calls[2].statuses = <<"pending", "failed">>
    /\ is_expired(batch[2])
    /\ batch[2].error_message # None

\* apply_events has returned its result to the caller
EventsApplied == entry = "events" /\ pc = "done" /\ applied # None

\* the solver has been asked to solve during the calls made so far
Resolved == \E c \in DOMAIN calls : calls[c].op = "solve"

\* C21: when apply_events has applied events of which one, handled under
\* the policy replan_unstarted, asks for a replan, the plan has been solved
\* again and a new schedule is there; when every event is handled under
\* manual_review, a diff is returned and the plan has not been solved again.
C21_PolicyDecidesResolve ==
    EventsApplied
    => /\ (\E k \in DOMAIN batch :
              /\ batch[k].policy = "replan_unstarted"
              /\ \E r \in batch[k].processing_result : r.requires_replan)
          => Resolved /\ schedule # None
       /\ (\A k \in DOMAIN batch : batch[k].policy = "manual_review")
          => ~Resolved /\ \E a \in applied : "diff" \in DOMAIN a

\* the event types that are decoded without any analysis of their own
ScopeOnlyTypes == {"third_party_ack", "resource_available", "resource_unavailable"}

\* C22: an otherwise valid event of type third_party_ack, resource_available
\* or resource_unavailable is completed once process_event is done with it,
\* and is at no time failed.
C22_ScopeOnlyTypesCompleted ==
    \A k \in DOMAIN batch :
        (batch[k].event_type \in ScopeOnlyTypes
         /\ _validate_event(Event(k, events[k])) = None)
        => /\ batch[k].status # "failed"
           /\ (k < Len(batch) \/ pc \notin {"process_event", "process"})
              => batch[k].status = "completed"

\* what C23 compares of the result of one gate
Verdict(r) ==
    <<r.status, r.passed_conditions, r.failed_conditions, r.required_actions>>

EvidenceLacking(h) == _validate_evidence(h.evidence) # None

\* C24: a confirm_handover whose evidence lacks handover_form, photo,
\* signature.by or signature.time raises a ValidationError to its caller and
\* leaves the gate of the task as it was.
C24_LackingEvidenceRaises ==
    \A h \in handover :
        EvidenceLacking(h) =>
            /\ \E e \in h.raised : e.type = ValidationError.type
            /\ h.after.gate = h.before.gate

\* the conditions a handover is to flip are recorded as passed on the gate
HandoverRecorded(g) ==
    /\ "task_complete" \notin Range(g.failed_conditions)
    /\ "evidence_complete" \notin Range(g.failed_conditions)
    /\ {"task_complete", "evidence_complete"} \subseteq g.reported
    /\ g.is_passed = (Len(g.failed_conditions) = 0)

\* C25: after a confirm_handover that returned status ok, the gate of the task
\* has task_complete and evidence_complete recorded as passed.
C25_HandoverFlipsGate ==
    \A h \in handover :
        h.returned.status = "ok" => \A g \in h.after.gate : HandoverRecorded(g)

\* C29: the gate of the task is passed only if every one of its required
\* conditions has been reported as passed.
C29_PassedOnlyIfAllReported ==
    entry = "gates" =>
        \A g \in TheTask.gate :
            g.is_passed => Range(g.required_conditions) \subseteq g.reported

(***************************************************************************)
(* The ledger of the resource service.                                     *)
(***************************************************************************)
\* the last call on the resource service was an allocate_resource
Allocating(c) == c.op = "allocate_resource"

\* the arguments allocate_resource accepts
ArgumentsValid(c) == c.start_time < c.end_time /\ c.quantity > 0

\* the quantity the ledger held of the resource over the period asked for
OverlappingQuantity(c) ==
    SumQuantities(SelectSeq(AllocationsOf(c.before, c.resource_id),
        LAMBDA alloc : ~(c.end_time <= alloc.start_time
                         \/ alloc.end_time <= c.start_time)))

\* the resource is active, available at the start, and has room
ShouldSucceed(c) ==
    /\ c.resource_id \in DOMAIN resource_cache
    /\ LET R == resource_cache[c.resource_id]
       IN  /\ R.is_active
           /\ is_available_at(R, c.start_time)
           /\ OverlappingQuantity(c) + c.quantity <= R.available_quantity

\* the call appended exactly one allocation, the one it returned
Succeeded(c) ==
    /\ raised = None
    /\ \E a \in c.returned :
           /\ a.resource_id = c.resource_id /\ a.allocated_to = c.task_id
           /\ a.quantity = c.quantity
           /\ a.start_time = c.start_time /\ a.end_time = c.end_time
           /\ c.resource_id \in DOMAIN c.before
           /\ allocation_cache = [c.before EXCEPT ![c.resource_id] = Append(@, a)]

\* the call failed with the conflict naming the resource, the ledger untouched
Conflicted(c) ==
    /\ raised = Some(ResourceConflict({c.resource_id}))
    /\ c.returned = None
    /\ allocation_cache = c.before

\* C26 as stated: every allocate_resource either succeeds, appending and
\* returning one allocation, or fails with ResourceConflictError naming the
\* resource and the ledger unchanged; it succeeds exactly when the resource is
\* active, available at start and has room for the quantity.
C26_AllocateSucceedsOrConflicts ==
    \A c \in resource_call :
        Allocating(c) =>
            /\ Succeeded(c) \/ Conflicted(c)
            /\ Succeeded(c) <=> ShouldSucceed(c)

\* C26 amended: that holds of the calls with start < end and quantity > 0; any
\* other call fails with a ValidationError and leaves the ledger unchanged.
C26_AllocateValidSucceedsOrConflicts ==
    \A c \in resource_call :
        Allocating(c) =>
            IF ArgumentsValid(c)
            THEN /\ Succeeded(c) \/ Conflicted(c)
                 /\ Succeeded(c) <=> ShouldSucceed(c)
            ELSE /\ raised = Some(ValidationError)
                 /\ c.returned = None
                 /\ allocation_cache = c.before

\* an available resource refused for want of room, after an allocation
C26_Witness ==
    \E c \in resource_call :
        /\ Allocating(c) /\ ArgumentsValid(c) /\ Conflicted(c)
        /\ c.resource_id \in DOMAIN resource_cache
        /\ is_available_at(resource_cache[c.resource_id], c.start_time)
        /\ c.quantity <= resource_cache[c.resource_id].available_quantity
        /\ OverlappingQuantity(c) > 0

\* the allocations of the ledger still allocated, of a resource
Held(r) == SelectSeq(allocation_cache[r], LAMBDA a : a.status = "allocated")

\* C27: no two different resources of one exclusive group hold allocations
\* whose periods overlap.
C27_OnePerExclusiveGroup ==
    entry = "resources" =>
        \A r1 \in DOMAIN allocation_cache, r2 \in DOMAIN allocation_cache :
            (/\ r1 # r2
             /\ resource_cache[r1].exclusive_group # None
             /\ resource_cache[r1].exclusive_group = resource_cache[r2].exclusive_group)
            => \A i \in DOMAIN Held(r1), j \in DOMAIN Held(r2) :
                   ~_time_periods_overlap(Held(r1)[i].start_time, Held(r1)[i].end_time,
                                          Held(r2)[j].start_time, Held(r2)[j].end_time)

\* the instants of the periods asked for
Instants == 0..3

\* the quantity of the resource the ledger holds at the instant
QuantityAt(r, t) ==
    SumQuantities(SelectSeq(allocation_cache[r],
                            LAMBDA a : a.start_time <= t /\ t < a.end_time))

\* C30: at every instant the allocations of a resource that cover it sum to at
\* most the available quantity of the resource.
C30_NeverOverAllocated ==
    entry = "resources" =>
        \A r \in DOMAIN allocation_cache, t \in Instants :
            QuantityAt(r, t) <= resource_cache[r].available_quantity

\* a resource full at an instant, with an allocation released before
C30_Witness ==
    /\ entry = "resources"
    /\ \E r \in DOMAIN allocation_cache, t \in Instants :
           /\ QuantityAt(r, t) = resource_cache[r].available_quantity
           /\ \E i \in DOMAIN allocation_cache[r] :
                  allocation_cache[r][i].status = "released"

(***************************************************************************)
(* The dependencies of a list of jobs.                                     *)
(***************************************************************************)
\* every predecessor of the list names a job of the list
PredecessorsListed(jobs) ==
    \A i \in DOMAIN jobs :
        Range(jobs[i].predecessor_jobs) \subseteq {jobs[j].job_id : j \in DOMAIN jobs}

\* some jobs of the list depend on each other in a circle
Cyclic(jobs) ==
    \E c \in ListsOf({jobs[j].job_id : j \in DOMAIN jobs}) :
        /\ c # <<>>
        /\ \A k \in DOMAIN c :
               c[(k % Len(c)) + 1] \in Range(DependenciesOf(jobs, c[k]))

\* C28: on a list whose predecessors all name jobs of the list,
\* validate_job_dependencies raises nothing and returns (false, errors) with
\* the circular dependency as the first error when the jobs depend on each
\* other in a circle, and (true, no errors) when they do not.
C28_ReturnsVerdictOnListedPredecessors ==
    (entry = "validators" /\ pc = "done" /\ PredecessorsListed(dependent_jobs)) =>
        /\ raised = None
        /\ \E v \in validation :
               IF Cyclic(dependent_jobs)
               THEN /\ ~v.is_valid
                    /\ Len(v.errors) > 0
                    /\ v.errors[1][1] = "Circular dependency detected"
               ELSE v.is_valid /\ v.errors = <<>>

====
